---- MODULE Spec2Model ----
(***************************************************************************)
(* The lobby server of moba_try_5 (src/lobby-server/src/main.rs): the      *)
(* event loop of ServerState, its message handlers, the shared             *)
(* player-left-lobby routine and the supervision of the game-server child  *)
(* processes started by start_game.                                        *)
(*                                                                         *)
(* Identifiers.  PlayerId and LobbyId are fresh UUIDs in the program; here *)
(* they are minted in ascending order from counters and never reused.      *)
(*                                                                         *)
(* HashMap order.  Lobby.players is a HashMap<Team, Vec<PlayerId>>; every  *)
(* loop over values()/iter() visits the teams in an order the program does *)
(* not control.  Each handler that iterates draws that order from the      *)
(* permutations of the lobby's team keys.                                  *)
(*                                                                         *)
(* Sessions.  A session task forwards what its client wrote; its events    *)
(* may land anywhere among those of the other producers of the channel, so *)
(* an event of a session is drawn at the turn of the loop that handles it. *)
(* The events of the supervisors and of the loop itself wait in queue.     *)
(*                                                                         *)
(* Observation.  last is the event the loop has just handled and out the   *)
(* messages that turn sent, each with its recipients; LoopBack clears both *)
(* when the loop is back at its select!.                                   *)
(*                                                                         *)
(* Specifications.  Spec runs one lobby with every request and every input *)
(* and the supervisor of its game; GameSpec runs matches of several        *)
(* lobbies side by side with the requests that form a lobby and select     *)
(* champions; KillSpec adds the loss of connections and the kill of a      *)
(* child, under fairness.  PlacesSpec runs the requests that place players *)
(* in teams with room for three entries; SessionSpec keeps the events of   *)
(* the sessions in the channel in posting order; ShutdownSpec adds the     *)
(* ctrl-c handler and the Shutdown event, under fairness; KickSpec runs    *)
(* two lobbies with the requests that take players out of a lobby.         *)
(***************************************************************************)
EXTENDS Integers, Sequences, FiniteSets, TLC

\* ---------------------------------------------------------------- bounds
MaxPlayers == 2
MaxLobbies == 1
MaxGames == 1
MaxMatchLobbies == 2
MaxMatchGames == 2
MaxTeams == 2
MaxLimit == 1
MaxQueue == 1
MaxEntries == 2
MaxSlots == 3
MaxPosted == 3

\* ------------------------------------------------------ program constants
DefaultTeamCount == 2
DefaultLimit == 5
ChampCount == 100

None == 0
PlayerIds == 1..MaxPlayers
\* the lobby ids a client may name; MaxLobbies is at most MaxMatchLobbies
LobbyIds == 1..MaxMatchLobbies
\* options.game_server_port_range, an inclusive range given on the command line
PortRange == 7001..7002
\* the one entry of MAPS
MapNames == {"Default"}
AvailableChamps == 1..ChampCount

VARIABLES
    players,                 \* ServerState.players: pid -> [name, in_lobby]
    lobbies,                 \* ServerState.lobbies: lid -> Lobby
    game_servers,            \* ServerState.game_servers: lid -> child whose cancel sender is stored
    used_game_server_ports,  \* ServerState.used_game_server_ports
    children,                \* the supervisor tasks spawned by start_game, with their child process
    queue,                   \* the event channel (event_sender / event_receiver)
    sessions,                \* the session task of each connection
    should_exit,             \* ServerState.should_exit
    panicked,                \* the event loop unwound out of handle_event
    has_called_handler,      \* the flag of the ctrl-c handler
    nextPid, nextLid, nextChild,
    last,                    \* the event handled by the step that led here
    out                      \* the messages sent while handling it

vars == <<players, lobbies, game_servers, used_game_server_ports, children, queue,
          sessions, should_exit, panicked, has_called_handler, nextPid, nextLid, nextChild, last, out>>

\* ------------------------------------------------------------ sequences
Range(s) == {s[i] : i \in DOMAIN s}

\* Iterator::position: index of the first element equal to x, 0 for None
Position(s, x) ==
    IF \E i \in DOMAIN s : s[i] = x
    THEN CHOOSE i \in DOMAIN s : s[i] = x /\ \A j \in 1..(i - 1) : s[j] # x
    ELSE 0

\* Vec::remove(pos)
RemoveAt(s, pos) == [i \in 1..(Len(s) - 1) |-> IF i < pos THEN s[i] ELSE s[i + 1]]

Count(s, x) == Cardinality({i \in DOMAIN s : s[i] = x})

\* the orders in which a HashMap with the given keys may be iterated
Orders(keys) ==
    {o \in [1..Cardinality(keys) -> keys] : \A i, j \in DOMAIN o : i # j => o[i] # o[j]}

WithoutKey(f, k) == [x \in DOMAIN f \ {k} |-> f[x]]
WithKey(f, k, v) == [x \in DOMAIN f \cup {k} |-> IF x = k THEN v ELSE f[x]]

\* lobby.players.values().flatten() visited in the order ord
RECURSIVE FlattenFrom(_, _, _)
FlattenFrom(teams, ord, i) ==
    IF i > Len(ord) THEN <<>> ELSE teams[ord[i]] \o FlattenFrom(teams, ord, i + 1)
Flatten(teams, ord) == FlattenFrom(teams, ord, 1)

\* lobby.players.values().map(Vec::len).sum()
RECURSIVE SumLen(_, _)
SumLen(teams, keys) ==
    IF keys = {} THEN 0
    ELSE LET k == CHOOSE x \in keys : TRUE IN Len(teams[k]) + SumLen(teams, keys \ {k})
PlayerCount(teams) == SumLen(teams, DOMAIN teams)

\* how often pid occurs in the team lists
Occurrences(teams, pid) ==
    LET RECURSIVE Occ(_)
        Occ(keys) == IF keys = {} THEN 0
                     ELSE LET k == CHOOSE x \in keys : TRUE
                          IN Count(teams[k], pid) + Occ(keys \ {k})
    IN Occ(DOMAIN teams)

Members(teams) == UNION {Range(teams[t]) : t \in DOMAIN teams}

\* the loop "for players in lobby.players.values_mut() { if let Some(pos) = ... {
\* players.remove(pos); break; } }": the first team, in iteration order, that holds pid
\* loses pid's first occurrence
RECURSIVE RemoveFirstFrom(_, _, _, _)
RemoveFirstFrom(teams, ord, i, pid) ==
    IF i > Len(ord) THEN teams
    ELSE LET pos == Position(teams[ord[i]], pid) IN
         IF pos # 0 THEN [teams EXCEPT ![ord[i]] = RemoveAt(@, pos)]
         ELSE RemoveFirstFrom(teams, ord, i + 1, pid)
RemovePlayer(teams, ord, pid) == RemoveFirstFrom(teams, ord, 1, pid)

\* a variant of SmallestTeam that takes the last team of smallest size
SmallestTeamLast(teams, team_count) ==
    IF team_count < 1 THEN -1
    ELSE CHOOSE t \in 0..(team_count - 1) :
            /\ \A u \in 0..(team_count - 1) : Len(teams[t]) <= Len(teams[u])
            /\ \A u \in (t + 1)..(team_count - 1) : Len(teams[u]) > Len(teams[t])

\* (0..team_count).map(|i| (Team(i), len)).min_by_key(|x| x.1): the first team of
\* smallest size, None (here -1) for no team
SmallestTeam(teams, team_count) ==
    IF team_count < 1 THEN -1
    ELSE CHOOSE t \in 0..(team_count - 1) :
            /\ \A u \in 0..(team_count - 1) : Len(teams[t]) <= Len(teams[u])
            /\ \A u \in 0..(t - 1) : Len(teams[u]) > Len(teams[t])

\* ------------------------------------------------------------ data model
\* LobbySettings (lib.rs)
Settings(name, map, team_count, limit, can_change, is_open) ==
    [name |-> name, map |-> map, team_count |-> team_count,
     player_limit_per_team |-> limit, players_can_change_team |-> can_change,
     lobby_is_open |-> is_open]

NoSettings == Settings("", "", 0, 0, FALSE, FALSE)

\* Option<ChampionSelection>: None, or Some{champion, locked}
NoSelection == [some |-> FALSE, champion |-> 0, locked |-> FALSE]
Selection(champion, locked) == [some |-> TRUE, champion |-> champion, locked |-> locked]

\* LobbyState: Normal, or ChampSelect(ChampSelectState)
NormalState == [tag |-> "Normal", selected_champs |-> <<>>]
ChampSelect(selected) == [tag |-> "ChampSelect", selected_champs |-> selected]

\* impl Display for Team
TeamName(t) ==
    IF t = 0 THEN "Red Team" ELSE IF t = 1 THEN "Blue Team" ELSE "Team " \o ToString(t)

\* MessageFromServer; a and b are the ids, team or token a variant carries
ServerMsg(type, a, b, text, settings) ==
    [type |-> type, a |-> a, b |-> b, text |-> text, settings |-> settings]
RequestRefused(reason) == ServerMsg("RequestRefused", 0, 0, reason, NoSettings)
Plain(type) == ServerMsg(type, 0, 0, "", NoSettings)
With1(type, a) == ServerMsg(type, a, 0, "", NoSettings)
With2(type, a, b) == ServerMsg(type, a, b, "", NoSettings)

\* MessageFromPlayer
ClientMsg(type, id, id2, team, lid, settings, champion) ==
    [type |-> type, id |-> id, id2 |-> id2, team |-> team, lid |-> lid,
     settings |-> settings, champion |-> champion]
Bare(type) == ClientMsg(type, 0, 0, 0, 0, NoSettings, 0)

\* Event
Ev(kind, pid, name, cb, lid, child) ==
    [kind |-> kind, pid |-> pid, name |-> name, cb |-> cb, lid |-> lid, child |-> child,
     tokens |-> {}]
ConnectionLost(pid) == Ev("ConnectionLost", pid, "", "", 0, 0)
\* Event::Callback: cb names the closure, lid and child what it captured; tokens: the
\* players of the token map a GameStarted closure captured
Callback(cb, lid, child) == Ev("Callback", 0, "", cb, lid, child)
GameStartedCallback(lid, child, tokens) ==
    [Callback("GameStarted", lid, child) EXCEPT !.tokens = tokens]

\* an event together with the payload drawn for it when it is handled
Handled(e, msg) ==
    [kind |-> e.kind, pid |-> e.pid, name |-> e.name, cb |-> e.cb, lid |-> e.lid,
     child |-> e.child, tokens |-> e.tokens, msg |-> msg]
NoEvent == Handled(Ev("None", 0, "", "", 0, 0), Bare("None"))

\* ------------------------------------------------- the handlers' workspace
\* What one handle_event call reads and writes: the maps of ServerState, the
\* events it posts, the messages it sends, and whether it unwound (todo!, unwrap).
World ==
    [players |-> players, lobbies |-> lobbies, game_servers |-> game_servers,
     children |-> children, nextLid |-> nextLid, nextChild |-> nextChild,
     posted |-> <<>>, out |-> <<>>, panicked |-> FALSE, should_exit |-> should_exit]

Panic(W) == [W EXCEPT !.panicked = TRUE]

\* the recipients of one send, as a bag: how many copies each player is sent
OnlyTo(pid) == [p \in PlayerIds |-> IF p = pid THEN 1 ELSE 0]
NoRecipient == [p \in PlayerIds |-> 0]

\* ServerState::send_message: nothing for a player that is not in the player map
Delivered(W, pid) == pid \in DOMAIN W.players
send_message(W, pid, msg) ==
    IF Delivered(W, pid)
    THEN [W EXCEPT !.out = Append(@, [to |-> OnlyTo(pid), msg |-> msg])]
    ELSE W

\* ServerState::broadcast_lobby_message: one send per occurrence in the team lists,
\* skipping exclude_player and the ids that are not in the player map
LobbyRecipients(W, lid, exclude) ==
    [p \in PlayerIds |->
        IF p = exclude \/ p \notin DOMAIN W.players THEN 0
        ELSE Occurrences(W.lobbies[lid].players, p)]
broadcast_lobby_message(W, lid, exclude, msg) ==
    IF lid \notin DOMAIN W.lobbies THEN W
    ELSE LET to == LobbyRecipients(W, lid, exclude) IN
         IF to = NoRecipient THEN W
         ELSE [W EXCEPT !.out = Append(@, [to |-> to, msg |-> msg])]

\* ServerState::broadcast_global_message
broadcast_global_message(W, msg) ==
    LET to == [p \in PlayerIds |-> IF p \in DOMAIN W.players THEN 1 ELSE 0] IN
    IF to = NoRecipient THEN W
    ELSE [W EXCEPT !.out = Append(@, [to |-> to, msg |-> msg])]

\* guards!(ret e)
Refuse(W, pid, reason) == send_message(W, pid, RequestRefused(reason))

\* ----------------------------------------------------- player-left-lobby
AllTeams == 0..(MaxTeams - 1)

\* the iteration order of a team map whose keys are among AllTeams: the keys in the
\* order a permutation of AllTeams ranks them
OrderOf(perm, teams) ==
    LET IsKey(t) == t \in DOMAIN teams IN SelectSeq(perm, IsKey)

\* a variant of handle_player_left_lobby that deletes the empty lobby and leaves its
\* game-server handle in the map
handle_player_left_lobbyKeepsHandle(W, pid, ords) ==
    IF pid \notin DOMAIN W.players THEN W
    ELSE LET lid == W.players[pid].in_lobby IN
    IF lid = None THEN W
    ELSE IF lid \notin DOMAIN W.lobbies THEN W
    ELSE LET lobby == W.lobbies[lid]
             ord == OrderOf(ords[lid], lobby.players)
             teams == RemovePlayer(lobby.players, ord, pid)
             W1 == [W EXCEPT !.players[pid].in_lobby = None]
         IN
         IF \A t \in DOMAIN teams : teams[t] = <<>>
         THEN [W1 EXCEPT !.lobbies = WithoutKey(@, lid)]
         ELSE LET leader == IF lobby.leader = pid
                            THEN Flatten(teams, ord)[1]
                            ELSE lobby.leader
                  W2 == [W1 EXCEPT !.lobbies[lid].players = teams,
                                   !.lobbies[lid].leader = leader]
                  W3 == IF lobby.leader = pid
                        THEN broadcast_lobby_message(W2, lid, None,
                                                     With1("LobbyLeaderChanged", leader))
                        ELSE W2
              IN broadcast_lobby_message(W3, lid, None, With1("PlayerLeftYourLobby", pid))

\* ServerState::handle_player_left_lobby; OrderOf(ords[lid], _) is the iteration
\* order of lobby lid's teams
handle_player_left_lobby(W, pid, ords) ==
    IF pid \notin DOMAIN W.players THEN W
    ELSE LET lid == W.players[pid].in_lobby IN
    IF lid = None THEN W
    ELSE IF lid \notin DOMAIN W.lobbies THEN W
    ELSE LET lobby == W.lobbies[lid]
             ord == OrderOf(ords[lid], lobby.players)
             teams == RemovePlayer(lobby.players, ord, pid)
             W1 == [W EXCEPT !.players[pid].in_lobby = None]
         IN
         IF \A t \in DOMAIN teams : teams[t] = <<>>
         THEN [W1 EXCEPT !.lobbies = WithoutKey(@, lid),
                         !.game_servers = WithoutKey(@, lid)]
         ELSE LET leader == IF lobby.leader = pid
                            THEN Flatten(teams, ord)[1]
                            ELSE lobby.leader
                  W2 == [W1 EXCEPT !.lobbies[lid].players = teams,
                                   !.lobbies[lid].leader = leader]
                  W3 == IF lobby.leader = pid
                        THEN broadcast_lobby_message(W2, lid, None,
                                                     With1("LobbyLeaderChanged", leader))
                        ELSE W2
              IN broadcast_lobby_message(W3, lid, None, With1("PlayerLeftYourLobby", pid))

\* "for player in players { send_message(player, YouLeftLobby);
\* handle_player_left_lobby(player); }" of the on_exit callbacks
RECURSIVE RemoveAll(_, _, _, _)
RemoveAll(W, list, i, ords) ==
    IF i > Len(list) THEN W
    ELSE RemoveAll(handle_player_left_lobby(send_message(W, list[i], Plain("YouLeftLobby")),
                                            list[i], ords),
                   list, i + 1, ords)

\* ------------------------------------------------------------- start-game
FreePorts == {port \in PortRange : port \notin used_game_server_ports}

\* ServerState::start_game up to the spawn of the supervisor task.  spawned: whether
\* Command::spawn succeeded.  The child id names the oneshot channel created here.
start_game(W, lid, spawned) ==
    IF lid \notin DOMAIN W.lobbies THEN Panic(W)
    ELSE LET lobby == W.lobbies[lid]
             selected == lobby.lobby_state.selected_champs
         IN
    IF lobby.lobby_state.tag # "ChampSelect" THEN Panic(W)
    ELSE IF \E p \in DOMAIN selected : ~selected[p].some THEN Panic(W)
    ELSE IF FreePorts = {} THEN Panic(W)
    ELSE LET port == CHOOSE x \in FreePorts : \A y \in FreePorts : x <= y
             c == W.nextChild
             child(pc) == [lobby |-> lid, port |-> port, pc |-> pc, killed |-> FALSE,
                           players |-> Members(lobby.players)]
             W1 == [W EXCEPT !.game_servers = WithKey(@, lid, c), !.nextChild = c + 1]
         IN
         IF ~spawned
         THEN broadcast_lobby_message(W1, lid, None,
                  RequestRefused("Failed to start game server;\nplease restart your game client."))
         ELSE IF \E p \in Members(lobby.players) :
                    p \notin DOMAIN W.players \/ p \notin DOMAIN selected
              THEN Panic([W1 EXCEPT !.children = WithKey(@, c, child("orphan"))])
              ELSE [W1 EXCEPT !.children = WithKey(@, c, child("boot"))]

\* ---------------------------------------------------------- handle_message
CreateLobby(W, pid) ==
    IF W.players[pid].in_lobby # None THEN Refuse(W, pid, "You are already in a lobby.")
    ELSE LET lid == W.nextLid
             lobby == [settings |-> Settings(W.players[pid].name \o "'s Lobby", "Default",
                                             DefaultTeamCount, DefaultLimit, TRUE, TRUE),
                       leader |-> pid,
                       players |-> [t \in {0, 1} |-> IF t = 0 THEN <<pid>> ELSE <<>>],
                       lobby_state |-> NormalState]
             W1 == [W EXCEPT !.lobbies = WithKey(@, lid, lobby),
                             !.players[pid].in_lobby = lid,
                             !.nextLid = lid + 1]
             W2 == send_message(W1, pid, With1("YouJoinedLobby", lid))
         IN broadcast_lobby_message(W2, lid, pid, With1("PlayerJoinedYourLobby", pid))

\* the team of smallest size exists: team_count >= 1 and Team(0..team_count) are keys
HasSmallestTeam(teams, team_count) ==
    team_count >= 1 /\ \A t \in 0..(team_count - 1) : t \in DOMAIN teams

\* a variant of JoinLobby that checks lobby_is_open before the state of the lobby
JoinLobbyOpenFirst(W, pid, lid) ==
    IF W.players[pid].in_lobby # None THEN Refuse(W, pid, "You are already in a lobby.")
    ELSE IF lid \notin DOMAIN W.lobbies THEN Refuse(W, pid, "That lobby does not exist.")
    ELSE LET lobby == W.lobbies[lid] IN
    IF ~lobby.settings.lobby_is_open THEN Refuse(W, pid, "The lobby is closed.")
    ELSE IF lobby.lobby_state.tag # "Normal" THEN Refuse(W, pid, "Lobby is in invalid state.")
    ELSE IF PlayerCount(lobby.players)
              >= lobby.settings.team_count * lobby.settings.player_limit_per_team
         THEN Refuse(W, pid, "The lobby is full")
    ELSE IF ~HasSmallestTeam(lobby.players, lobby.settings.team_count) THEN Panic(W)
    ELSE LET team == SmallestTeam(lobby.players, lobby.settings.team_count)
             W1 == [W EXCEPT !.players[pid].in_lobby = lid,
                             !.lobbies[lid].players[team] = Append(@, pid)]
             W2 == send_message(W1, pid, With1("YouJoinedLobby", lid))
         IN broadcast_lobby_message(W2, lid, pid, With1("PlayerJoinedYourLobby", pid))

\* a variant of JoinLobby without the guard on the lobby's state
JoinLobbyAnyState(W, pid, lid) ==
    IF W.players[pid].in_lobby # None THEN Refuse(W, pid, "You are already in a lobby.")
    ELSE IF lid \notin DOMAIN W.lobbies THEN Refuse(W, pid, "That lobby does not exist.")
    ELSE LET lobby == W.lobbies[lid] IN
    IF ~lobby.settings.lobby_is_open THEN Refuse(W, pid, "The lobby is closed.")
    ELSE IF PlayerCount(lobby.players)
              >= lobby.settings.team_count * lobby.settings.player_limit_per_team
         THEN Refuse(W, pid, "The lobby is full")
    ELSE IF ~HasSmallestTeam(lobby.players, lobby.settings.team_count) THEN Panic(W)
    ELSE LET team == SmallestTeam(lobby.players, lobby.settings.team_count)
             W1 == [W EXCEPT !.players[pid].in_lobby = lid,
                             !.lobbies[lid].players[team] = Append(@, pid)]
             W2 == send_message(W1, pid, With1("YouJoinedLobby", lid))
         IN broadcast_lobby_message(W2, lid, pid, With1("PlayerJoinedYourLobby", pid))

JoinLobby(W, pid, lid) ==
    IF W.players[pid].in_lobby # None THEN Refuse(W, pid, "You are already in a lobby.")
    ELSE IF lid \notin DOMAIN W.lobbies THEN Refuse(W, pid, "That lobby does not exist.")
    ELSE LET lobby == W.lobbies[lid] IN
    IF lobby.lobby_state.tag # "Normal" THEN Refuse(W, pid, "Lobby is in invalid state.")
    ELSE IF ~lobby.settings.lobby_is_open THEN Refuse(W, pid, "The lobby is closed.")
    ELSE IF PlayerCount(lobby.players)
              >= lobby.settings.team_count * lobby.settings.player_limit_per_team
         THEN Refuse(W, pid, "The lobby is full")
    ELSE IF ~HasSmallestTeam(lobby.players, lobby.settings.team_count) THEN Panic(W)
    ELSE LET team == SmallestTeam(lobby.players, lobby.settings.team_count)
             W1 == [W EXCEPT !.players[pid].in_lobby = lid,
                             !.lobbies[lid].players[team] = Append(@, pid)]
             W2 == send_message(W1, pid, With1("YouJoinedLobby", lid))
         IN broadcast_lobby_message(W2, lid, pid, With1("PlayerJoinedYourLobby", pid))

LeaveLobby(W, pid, ords) ==
    handle_player_left_lobby(send_message(W, pid, Plain("YouLeftLobby")), pid, ords)

\* a variant of SwitchTeam without the guard on the target: any member may move anyone
SwitchTeamAnyTarget(W, pid, id, team, ords) ==
    LET lid == W.players[pid].in_lobby IN
    IF lid = None THEN Refuse(W, pid, "You are not in a lobby.")
    ELSE IF lid \notin DOMAIN W.lobbies THEN Refuse(W, pid, "That lobby does not exist.")
    ELSE LET lobby == W.lobbies[lid] IN
    IF lobby.lobby_state.tag # "Normal" THEN Refuse(W, pid, "Lobby is in invalid state.")
    ELSE IF ~lobby.settings.players_can_change_team /\ lobby.leader # pid
         THEN Refuse(W, pid, "Team switching is disabled in this lobby.")
    ELSE IF team \notin DOMAIN lobby.players
         THEN Refuse(W, pid, TeamName(team) \o " does not exist.")
    ELSE IF Len(lobby.players[team]) >= lobby.settings.player_limit_per_team
         THEN Refuse(W, pid, TeamName(team) \o " is full.")
    ELSE LET removed == RemovePlayer(lobby.players, OrderOf(ords[lid], lobby.players), id)
             W1 == [W EXCEPT !.lobbies[lid].players = [removed EXCEPT ![team] = Append(@, id)]]
         IN broadcast_lobby_message(W1, lid, None, With2("PlayerSwitchedTeam", id, team))

SwitchTeam(W, pid, id, team, ords) ==
    LET lid == W.players[pid].in_lobby IN
    IF lid = None THEN Refuse(W, pid, "You are not in a lobby.")
    ELSE IF lid \notin DOMAIN W.lobbies THEN Refuse(W, pid, "That lobby does not exist.")
    ELSE LET lobby == W.lobbies[lid] IN
    IF lobby.lobby_state.tag # "Normal" THEN Refuse(W, pid, "Lobby is in invalid state.")
    ELSE IF ~lobby.settings.players_can_change_team /\ lobby.leader # pid
         THEN Refuse(W, pid, "Team switching is disabled in this lobby.")
    ELSE IF id # pid /\ lobby.leader # pid
         THEN Refuse(W, pid, "Cannot switch team of other player.")
    ELSE IF team \notin DOMAIN lobby.players
         THEN Refuse(W, pid, TeamName(team) \o " does not exist.")
    ELSE IF Len(lobby.players[team]) >= lobby.settings.player_limit_per_team
         THEN Refuse(W, pid, TeamName(team) \o " is full.")
    ELSE LET removed == RemovePlayer(lobby.players, OrderOf(ords[lid], lobby.players), id)
             W1 == [W EXCEPT !.lobbies[lid].players = [removed EXCEPT ![team] = Append(@, id)]]
         IN broadcast_lobby_message(W1, lid, None, With2("PlayerSwitchedTeam", id, team))

GetLobbyInfo(W, pid, lid) ==
    IF lid \notin DOMAIN W.lobbies THEN Refuse(W, pid, "That lobby does not exist.")
    ELSE send_message(W, pid, With1("LobbyInfo", lid))

GetLobbyList(W, pid) ==
    send_message(W, pid, With1("LobbyList", Cardinality(DOMAIN W.lobbies)))

GetPlayerInfo(W, pid, id) ==
    IF id \in DOMAIN W.players THEN send_message(W, pid, With1("PlayerInfo", id)) ELSE W

Disconnecting(W, pid) ==
    [W EXCEPT !.posted = Append(@, ConnectionLost(pid))]

\* a variant of KickPlayer without the guard on the lobby's state
KickPlayerAnyState(W, pid, id, ords) ==
    LET lid == W.players[pid].in_lobby IN
    IF lid = None THEN Refuse(W, pid, "You are not in a lobby.")
    ELSE IF lid \notin DOMAIN W.lobbies THEN Refuse(W, pid, "That lobby does not exist.")
    ELSE LET lobby == W.lobbies[lid] IN
    IF lobby.leader # pid THEN Refuse(W, pid, "You are not the lobby leader.")
    ELSE handle_player_left_lobby(send_message(W, id, Plain("YouLeftLobby")), id, ords)

KickPlayer(W, pid, id, ords) ==
    LET lid == W.players[pid].in_lobby IN
    IF lid = None THEN Refuse(W, pid, "You are not in a lobby.")
    ELSE IF lid \notin DOMAIN W.lobbies THEN Refuse(W, pid, "That lobby does not exist.")
    ELSE LET lobby == W.lobbies[lid] IN
    IF lobby.lobby_state.tag # "Normal" THEN Refuse(W, pid, "Lobby is in invalid state.")
    ELSE IF lobby.leader # pid THEN Refuse(W, pid, "You are not the lobby leader.")
    ELSE handle_player_left_lobby(send_message(W, id, Plain("YouLeftLobby")), id, ords)

\* str::is_empty and chars().all(char::is_whitespace) on the names a client may send
\* (all() holds of the empty string)
IsEmpty(name) == name = ""
AllWhitespace(name) == name \in {"", " ", "  "}

\* a variant of RemovedTeams that takes the teams out and keeps none of their players
RemovedTeamsDropped(teams, lo, hi) == <<>>

\* players_to_reshuffle.append(&mut lobby.players.remove(&team).unwrap()) for the
\* teams lo..hi, ascending
RECURSIVE RemovedTeams(_, _, _)
RemovedTeams(teams, lo, hi) ==
    IF lo >= hi THEN <<>> ELSE teams[lo] \o RemovedTeams(teams, lo + 1, hi)

\* "for players in lobby.players.values_mut() { if players.len() > limit {
\* players_to_reshuffle.extend(players.drain(limit..)); } }", visiting in order ord;
\* acc = [teams, moved]
RECURSIVE DrainTails(_, _, _, _)
DrainTails(acc, ord, i, limit) ==
    IF i > Len(ord) THEN acc
    ELSE LET t == ord[i]
             v == acc.teams[t]
         IN IF Len(v) > limit
            THEN DrainTails([teams |-> [acc.teams EXCEPT ![t] = SubSeq(v, 1, limit)],
                             moved |-> acc.moved \o SubSeq(v, limit + 1, Len(v))],
                            ord, i + 1, limit)
            ELSE DrainTails(acc, ord, i + 1, limit)

\* "for player in players_to_reshuffle { ...min_by_key...push(player) }"
RECURSIVE PlaceAll(_, _, _, _)
PlaceAll(teams, moved, i, team_count) ==
    IF i > Len(moved) THEN teams
    ELSE PlaceAll([teams EXCEPT ![SmallestTeam(teams, team_count)] = Append(@, moved[i])],
                  moved, i + 1, team_count)

\* a variant of Displace that takes the players of the teams from new.team_count on
\* but leaves their keys in the team map
DisplaceKeepKeys(teams, old, new, perm) ==
    LET removed == IF new.team_count < old.team_count
                   THEN RemovedTeams(teams, new.team_count, old.team_count)
                   ELSE <<>>
        keys == DOMAIN teams \cup (old.team_count..(new.team_count - 1))
        resized == [t \in keys |->
                      IF t >= old.team_count \/ t >= new.team_count THEN <<>> ELSE teams[t]]
    IN IF \/ new.player_limit_per_team < old.player_limit_per_team
          \/ \E t \in keys : Len(resized[t]) > new.player_limit_per_team
       THEN DrainTails([teams |-> resized, moved |-> removed],
                       OrderOf(perm, resized), 1, new.player_limit_per_team)
       ELSE [teams |-> resized, moved |-> removed]

\* the reshuffle of UpdateSettings up to the placement loop (main.rs 539-569): the
\* resized, truncated team lists and players_to_reshuffle
Displace(teams, old, new, perm) ==
    LET removed == IF new.team_count < old.team_count
                   THEN RemovedTeams(teams, new.team_count, old.team_count)
                   ELSE <<>>
        keys == IF new.team_count < old.team_count
                THEN DOMAIN teams \ (new.team_count..(old.team_count - 1))
                ELSE DOMAIN teams \cup (old.team_count..(new.team_count - 1))
        resized == [t \in keys |->
                      IF new.team_count > old.team_count /\ t >= old.team_count
                      THEN <<>> ELSE teams[t]]
    IN IF \/ new.player_limit_per_team < old.player_limit_per_team
          \/ \E t \in keys : Len(resized[t]) > new.player_limit_per_team
       THEN DrainTails([teams |-> resized, moved |-> removed],
                       OrderOf(perm, resized), 1, new.player_limit_per_team)
       ELSE [teams |-> resized, moved |-> removed]

\* the whole reshuffle (main.rs 539-582): the new team lists
Reshuffle(teams, old, new, perm) ==
    LET displaced == Displace(teams, old, new, perm)
    IN PlaceAll(displaced.teams, displaced.moved, 1, new.team_count)

\* whether the reshuffle unwraps a None: a team to remove that is no key, or a
\* displaced player to place while a team 0..team_count is no key
ReshufflePanics(teams, old, new, perm) ==
    IF new.team_count < old.team_count
       /\ \E t \in new.team_count..(old.team_count - 1) : t \notin DOMAIN teams
    THEN TRUE
    ELSE LET displaced == Displace(teams, old, new, perm)
         IN displaced.moved # <<>> /\ ~HasSmallestTeam(displaced.teams, new.team_count)

\* a variant of UpdateSettings without the early return for settings that are equal
\* to the lobby's
UpdateSettingsAlways(W, pid, new, ords) ==
    LET lid == W.players[pid].in_lobby IN
    IF lid = None THEN Refuse(W, pid, "You are not in a lobby.")
    ELSE IF lid \notin DOMAIN W.lobbies THEN Refuse(W, pid, "That lobby does not exist.")
    ELSE LET lobby == W.lobbies[lid] IN
    IF lobby.lobby_state.tag # "Normal" THEN Refuse(W, pid, "Lobby is in invalid state.")
    ELSE IF lobby.leader # pid THEN Refuse(W, pid, "You are not the lobby leader.")
    ELSE IF IsEmpty(new.name) THEN Refuse(W, pid, "Lobby name cannot be empty.")
    ELSE IF AllWhitespace(new.name)
         THEN Refuse(W, pid, "Lobby name cannot be only whitespace.")
    ELSE IF new.map \notin MapNames
         THEN Refuse(W, pid, "No map \"" \o new.map \o "\" exists.")
    ELSE IF new.team_count < 1 THEN Refuse(W, pid, "There must be at least 1 team.")
    ELSE IF ReshufflePanics(lobby.players, lobby.settings, new, ords[lid]) THEN Panic(W)
    ELSE LET teams == Reshuffle(lobby.players, lobby.settings, new, ords[lid])
             W1 == [W EXCEPT !.lobbies[lid].players = teams,
                             !.lobbies[lid].settings = new]
         IN broadcast_lobby_message(W1, lid, None,
                                    ServerMsg("SettingsUpdated", 0, 0, "", new))

UpdateSettings(W, pid, new, ords) ==
    LET lid == W.players[pid].in_lobby IN
    IF lid = None THEN Refuse(W, pid, "You are not in a lobby.")
    ELSE IF lid \notin DOMAIN W.lobbies THEN Refuse(W, pid, "That lobby does not exist.")
    ELSE LET lobby == W.lobbies[lid] IN
    IF lobby.lobby_state.tag # "Normal" THEN Refuse(W, pid, "Lobby is in invalid state.")
    ELSE IF lobby.leader # pid THEN Refuse(W, pid, "You are not the lobby leader.")
    ELSE IF IsEmpty(new.name) THEN Refuse(W, pid, "Lobby name cannot be empty.")
    ELSE IF AllWhitespace(new.name)
         THEN Refuse(W, pid, "Lobby name cannot be only whitespace.")
    ELSE IF new.map \notin MapNames
         THEN Refuse(W, pid, "No map \"" \o new.map \o "\" exists.")
    ELSE IF new.team_count < 1 THEN Refuse(W, pid, "There must be at least 1 team.")
    ELSE IF new = lobby.settings THEN W
    ELSE IF ReshufflePanics(lobby.players, lobby.settings, new, ords[lid]) THEN Panic(W)
    ELSE LET teams == Reshuffle(lobby.players, lobby.settings, new, ords[lid])
             W1 == [W EXCEPT !.lobbies[lid].players = teams,
                             !.lobbies[lid].settings = new]
         IN broadcast_lobby_message(W1, lid, None,
                                    ServerMsg("SettingsUpdated", 0, 0, "", new))

\* lobby.players.iter().find_map(|(t, v)| v.iter().position(|p| *p == x).map(|i| (*t, i))):
\* <<team, index>> of the first team in iteration order that holds x, <<-1, 0>> for None
RECURSIVE FindFrom(_, _, _, _)
FindFrom(teams, ord, i, x) ==
    IF i > Len(ord) THEN <<-1, 0>>
    ELSE IF Position(teams[ord[i]], x) # 0 THEN <<ord[i], Position(teams[ord[i]], x)>>
    ELSE FindFrom(teams, ord, i + 1, x)
FindPlayer(teams, ord, x) == FindFrom(teams, ord, 1, x)

\* lobby.players[pos_a] = player_b; lobby.players[pos_b] = player_a (main.rs 623-624)
SwapSlots(teams, pos_a, pos_b, player_a, player_b) ==
    LET first == [teams EXCEPT ![pos_a[1]][pos_a[2]] = player_b]
    IN [first EXCEPT ![pos_b[1]][pos_b[2]] = player_a]

\* a variant of SwitchPlaces that writes player_b into player_a's slot as soon as it
\* has found player_a, before it looks player_b up
SwitchPlacesEarlyWrite(W, pid, player_a, player_b, ords) ==
    LET lid == W.players[pid].in_lobby IN
    IF lid = None THEN Refuse(W, pid, "You are not in a lobby.")
    ELSE IF lid \notin DOMAIN W.lobbies THEN Refuse(W, pid, "That lobby does not exist.")
    ELSE LET lobby == W.lobbies[lid] IN
    IF lobby.lobby_state.tag # "Normal" THEN Refuse(W, pid, "Lobby is in invalid state.")
    ELSE IF ~lobby.settings.players_can_change_team /\ lobby.leader # pid
         THEN Refuse(W, pid, "Team switching is disabled in this lobby.")
    ELSE IF lobby.leader # pid
         THEN Refuse(W, pid, "Non-leader cannot switch places of players.")
    ELSE LET ord == OrderOf(ords[lid], lobby.players)
             pos_a == FindPlayer(lobby.players, ord, player_a)
             pos_b == FindPlayer(lobby.players, ord, player_b)
         IN
         IF pos_a[1] = -1 THEN Refuse(W, pid, "Player does not exist")
         ELSE LET W1 == [W EXCEPT !.lobbies[lid].players[pos_a[1]][pos_a[2]] = player_b] IN
              IF pos_b[1] = -1 THEN Refuse(W1, pid, "Player does not exist")
              ELSE broadcast_lobby_message(
                       [W1 EXCEPT !.lobbies[lid].players[pos_b[1]][pos_b[2]] = player_a],
                       lid, None, With2("PlayersSwitched", player_a, player_b))

SwitchPlaces(W, pid, player_a, player_b, ords) ==
    LET lid == W.players[pid].in_lobby IN
    IF lid = None THEN Refuse(W, pid, "You are not in a lobby.")
    ELSE IF lid \notin DOMAIN W.lobbies THEN Refuse(W, pid, "That lobby does not exist.")
    ELSE LET lobby == W.lobbies[lid] IN
    IF lobby.lobby_state.tag # "Normal" THEN Refuse(W, pid, "Lobby is in invalid state.")
    ELSE IF ~lobby.settings.players_can_change_team /\ lobby.leader # pid
         THEN Refuse(W, pid, "Team switching is disabled in this lobby.")
    ELSE IF lobby.leader # pid
         THEN Refuse(W, pid, "Non-leader cannot switch places of players.")
    ELSE LET ord == OrderOf(ords[lid], lobby.players)
             pos_a == FindPlayer(lobby.players, ord, player_a)
             pos_b == FindPlayer(lobby.players, ord, player_b)
         IN
         IF pos_a[1] = -1 THEN Refuse(W, pid, "Player does not exist")
         ELSE IF pos_b[1] = -1 THEN Refuse(W, pid, "Player does not exist")
         ELSE broadcast_lobby_message(
                  [W EXCEPT !.lobbies[lid].players =
                                SwapSlots(lobby.players, pos_a, pos_b, player_a, player_b)],
                  lid, None, With2("PlayersSwitched", player_a, player_b))

EnterChampSelect(W, pid) ==
    LET lid == W.players[pid].in_lobby IN
    IF lid = None THEN Refuse(W, pid, "You are not in a lobby.")
    ELSE IF lid \notin DOMAIN W.lobbies THEN Refuse(W, pid, "That lobby does not exist.")
    ELSE LET lobby == W.lobbies[lid] IN
    IF lobby.lobby_state.tag # "Normal" THEN Refuse(W, pid, "Lobby is in invalid state.")
    ELSE IF lobby.leader # pid
         THEN Refuse(W, pid, "Non-leader cannot trigger champ select.")
    ELSE LET selected == [p \in Members(lobby.players) |-> NoSelection]
             W1 == [W EXCEPT !.lobbies[lid].lobby_state = ChampSelect(selected)]
         IN broadcast_lobby_message(W1, lid, None, Plain("ChampSelectEntered"))

\* a variant of SelectChampion without the guard on a locked selection
SelectChampionAnytime(W, pid, champion) ==
    LET lid == W.players[pid].in_lobby IN
    IF lid = None THEN Refuse(W, pid, "You are not in a lobby.")
    ELSE IF lid \notin DOMAIN W.lobbies THEN Refuse(W, pid, "That lobby does not exist.")
    ELSE LET lobby == W.lobbies[lid]
             selected == lobby.lobby_state.selected_champs
         IN
    IF lobby.lobby_state.tag # "ChampSelect" THEN Refuse(W, pid, "Lobby is in invalid state.")
    ELSE IF champion \notin AvailableChamps
         THEN Refuse(W, pid, "That champion does not exist.")
    ELSE IF pid \notin DOMAIN selected THEN Panic(W)
    ELSE LET W1 == [W EXCEPT !.lobbies[lid].lobby_state.selected_champs[pid] =
                                 Selection(champion, FALSE)]
         IN broadcast_lobby_message(W1, lid, None,
                                    With2("PlayerSelectedChampion", pid, champion))

SelectChampion(W, pid, champion) ==
    LET lid == W.players[pid].in_lobby IN
    IF lid = None THEN Refuse(W, pid, "You are not in a lobby.")
    ELSE IF lid \notin DOMAIN W.lobbies THEN Refuse(W, pid, "That lobby does not exist.")
    ELSE LET lobby == W.lobbies[lid]
             selected == lobby.lobby_state.selected_champs
         IN
    IF lobby.lobby_state.tag # "ChampSelect" THEN Refuse(W, pid, "Lobby is in invalid state.")
    ELSE IF champion \notin AvailableChamps
         THEN Refuse(W, pid, "That champion does not exist.")
    ELSE IF pid \notin DOMAIN selected THEN Panic(W)
    ELSE IF selected[pid].some /\ selected[pid].locked
         THEN Refuse(W, pid, "You cannot change locked selection.")
    ELSE LET W1 == [W EXCEPT !.lobbies[lid].lobby_state.selected_champs[pid] =
                                 Selection(champion, FALSE)]
         IN broadcast_lobby_message(W1, lid, None,
                                    With2("PlayerSelectedChampion", pid, champion))

\* "if state.selected_champs.values().all(|s| s.as_ref().is_some_and(|s| s.locked))"
AllLocked(selected) == \A p \in DOMAIN selected : selected[p].some /\ selected[p].locked

LockChampSelection(W, pid, spawned) ==
    LET lid == W.players[pid].in_lobby IN
    IF lid = None THEN Refuse(W, pid, "You are not in a lobby.")
    ELSE IF lid \notin DOMAIN W.lobbies THEN Refuse(W, pid, "That lobby does not exist.")
    ELSE LET lobby == W.lobbies[lid]
             selected == lobby.lobby_state.selected_champs
         IN
    IF lobby.lobby_state.tag # "ChampSelect" THEN Refuse(W, pid, "Lobby is in invalid state.")
    ELSE IF pid \notin DOMAIN selected THEN Panic(W)
    ELSE IF ~selected[pid].some THEN Refuse(W, pid, "Cannot lock empty selection.")
    ELSE LET W1 == [W EXCEPT !.lobbies[lid].lobby_state.selected_champs[pid].locked = TRUE]
             W2 == IF AllLocked(W1.lobbies[lid].lobby_state.selected_champs)
                   THEN start_game(W1, lid, spawned)
                   ELSE W1
         IN IF W2.panicked THEN W2
            ELSE broadcast_lobby_message(W2, lid, None, With1("ChampSelectionLocked", pid))

\* ServerState::handle_message
handle_message(W, pid, m, ords, spawned) ==
    IF pid \notin DOMAIN W.players THEN W
    ELSE CASE m.type = "InitialHandshake" -> W
           [] m.type = "CreateLobby" -> CreateLobby(W, pid)
           [] m.type = "JoinLobby" -> JoinLobby(W, pid, m.lid)
           [] m.type = "LeaveLobby" -> LeaveLobby(W, pid, ords)
           [] m.type = "SwitchTeam" -> SwitchTeam(W, pid, m.id, m.team, ords)
           [] m.type = "GetLobbyInfo" -> GetLobbyInfo(W, pid, m.lid)
           [] m.type = "GetLobbyList" -> GetLobbyList(W, pid)
           [] m.type = "GetPlayerInfo" -> GetPlayerInfo(W, pid, m.id)
           [] m.type = "Disconnecting" -> Disconnecting(W, pid)
           [] m.type = "KickPlayer" -> KickPlayer(W, pid, m.id, ords)
           [] m.type = "UpdateSettings" -> UpdateSettings(W, pid, m.settings, ords)
           [] m.type = "SwitchPlaces" -> SwitchPlaces(W, pid, m.id, m.id2, ords)
           [] m.type = "EnterChampSelect" -> EnterChampSelect(W, pid)
           [] m.type = "SelectChampion" -> SelectChampion(W, pid, m.champion)
           [] m.type = "LockChampSelection" -> LockChampSelection(W, pid, spawned)
           [] m.type = "StartGame" -> Panic(W)

\* ------------------------------------------------- supervisor callbacks
\* the Callback posted on PlayerTokensGenerated (main.rs 947-952): list is the reply's
\* token map in its iteration order; the token of player p from child c is <<c, p>>
RECURSIVE SendTokens(_, _, _, _)
SendTokens(W, c, list, i) ==
    IF i > Len(list) THEN W
    ELSE IF ~Delivered(W, list[i]) THEN Panic(W)
    ELSE SendTokens(send_message(W, list[i], With2("GameStarted", c, list[i])), c, list, i + 1)

\* the Callback of on_exit for a successful exit (main.rs 896-905)
ExitedOk(W, lid, ords) ==
    IF lid \notin DOMAIN W.lobbies THEN W
    ELSE LET teams == W.lobbies[lid].players
         IN RemoveAll(W, Flatten(teams, OrderOf(ords[lid], teams)), 1, ords)

\* the Callback of on_exit for a failed exit (main.rs 909-924)
ExitedFailed(W, lid, ords) ==
    LET W1 == broadcast_lobby_message(W, lid, None,
                                      RequestRefused("Failed to start game server"))
    IN IF lid \notin DOMAIN W1.lobbies THEN W1
       ELSE LET teams == W1.lobbies[lid].players
            IN RemoveAll(W1, Flatten(teams, OrderOf(ords[lid], teams)), 1, ords)

\* the last Callback of on_exit (main.rs 927-929)
Cleanup(W, lid) == [W EXCEPT !.game_servers = WithoutKey(@, lid)]

\* ------------------------------------------------------------- inputs
Names == {"A"}
ChampInputs == {0, 5}
LimitInputs == (0..MaxLimit) \cup {DefaultLimit}
\* the settings UpdateSettings refuses, one for each refusal
RefusedSettings ==
    {Settings("", "Nowhere", 0, DefaultLimit, TRUE, TRUE),
     Settings(" ", "Nowhere", 0, DefaultLimit, TRUE, TRUE),
     Settings("A's Lobby", "Nowhere", 0, DefaultLimit, TRUE, TRUE),
     Settings("A's Lobby", "Default", 0, DefaultLimit, TRUE, TRUE)}
\* the settings a leader may send: the default ones with every team count and
\* limit, with every pair of flags, and the refused ones
SettingsInputs ==
    {Settings("A's Lobby", "Default", tc, lim, TRUE, TRUE) :
        tc \in 1..MaxTeams, lim \in LimitInputs}
    \cup {Settings("A's Lobby", "Default", DefaultTeamCount, DefaultLimit, cc, op) :
            cc \in BOOLEAN, op \in BOOLEAN}
    \cup RefusedSettings

\* the ids a client can name: those minted so far
KnownPlayers == 1..(nextPid - 1)
TeamInputs == 0..MaxTeams

\* the payloads whose handling visits a team map
OrderedPayloads ==
    {Bare("LeaveLobby")}
    \cup {ClientMsg("SwitchTeam", id, 0, team, 0, NoSettings, 0) :
            id \in KnownPlayers, team \in TeamInputs}
    \cup {ClientMsg("SwitchPlaces", a, b, 0, 0, NoSettings, 0) :
            a \in KnownPlayers, b \in KnownPlayers}
    \cup {ClientMsg("KickPlayer", id, 0, 0, 0, NoSettings, 0) : id \in KnownPlayers}
    \cup {ClientMsg("UpdateSettings", 0, 0, 0, 0, st, 0) : st \in SettingsInputs}

\* the other payloads
PlainPayloads ==
    {Bare(t) : t \in {"InitialHandshake", "CreateLobby", "GetLobbyList", "Disconnecting",
                      "EnterChampSelect", "StartGame"}}
    \cup {ClientMsg(t, 0, 0, 0, lid, NoSettings, 0) :
            t \in {"JoinLobby", "GetLobbyInfo"}, lid \in LobbyIds}
    \cup {ClientMsg("GetPlayerInfo", id, 0, 0, 0, NoSettings, 0) : id \in KnownPlayers}
    \cup {ClientMsg("SelectChampion", 0, 0, 0, 0, NoSettings, c) : c \in ChampInputs}

\* the requests of a match: those that form a lobby, select champions and leave
MatchOrderedPayloads == {m \in OrderedPayloads : m.type = "LeaveLobby"}
MatchPlainPayloads ==
    {m \in PlainPayloads :
        m.type \in {"CreateLobby", "JoinLobby", "EnterChampSelect", "SelectChampion"}}

TeamOrders == Orders(AllTeams)
\* one iteration order for whichever single lobby a handler visits
SameOrders == {[l \in LobbyIds |-> o] : o \in TeamOrders}
\* an iteration order for each lobby
AllOrders == [LobbyIds -> TeamOrders]
FirstOrders == [l \in LobbyIds |-> [i \in 1..MaxTeams |-> i - 1]]

\* ------------------------------------------------------------- the state
Init ==
    /\ players = <<>>
    /\ lobbies = <<>>
    /\ game_servers = <<>>
    /\ used_game_server_ports = {}
    /\ children = <<>>
    /\ queue = <<>>
    /\ sessions = <<>>
    /\ should_exit = FALSE
    /\ panicked = FALSE
    /\ has_called_handler = FALSE
    /\ nextPid = 1
    /\ nextLid = 1
    /\ nextChild = 1
    /\ last = NoEvent
    /\ out = <<>>

\* the process is up (the loop of run() has not ended and nothing unwound) and the
\* loop is back at its select!
Running == ~should_exit /\ ~panicked /\ last.kind = "None"

\* a step of a task other than the event loop: it posts events and touches no map
Post(events) ==
    /\ queue' = queue \o events
    /\ UNCHANGED <<last, out>>
    /\ UNCHANGED <<players, lobbies, game_servers, used_game_server_ports, should_exit,
                   panicked, nextLid, nextChild>>

\* how many events of a kind wait in a channel
Pending(q, kind) == Cardinality({i \in DOMAIN q : q[i].kind = kind})

\* one turn of the loop of run(): event e handled with payload m, leaving the
\* workspace W; rest is the channel without e
Turn(W, e, m, rest) ==
    /\ W.posted # <<>> => Pending(rest, "ConnectionLost") < MaxQueue
    /\ players' = W.players
    /\ lobbies' = W.lobbies
    /\ game_servers' = W.game_servers
    /\ children' = W.children
    /\ nextLid' = W.nextLid
    /\ nextChild' = W.nextChild
    /\ panicked' = W.panicked
    /\ should_exit' = W.should_exit
    /\ queue' = rest \o W.posted
    /\ out' = W.out
    /\ last' = Handled(e, m)
    /\ UNCHANGED <<used_game_server_ports, has_called_handler>>

Next_Event(kind) == Running /\ queue # <<>> /\ Head(queue).kind = kind

\* ------------------------------------------ tasks: supervisor (879-962)
\* the receiver of child c's oneshot channel resolves once its sender has been used
\* or dropped: the sender lives in game_servers and nowhere else
Cancelled(c) ==
    ~(children[c].lobby \in DOMAIN game_servers /\ game_servers[children[c].lobby] = c)

\* the child process is spawned and not yet reaped
Live(c) == children[c].pc \in {"boot", "watch"}

\* what on_exit posts
OnExit(c, success) ==
    <<Callback(IF success THEN "ExitedOk" ELSE "ExitedFailed", children[c].lobby, c),
      Callback("Cleanup", children[c].lobby, c)>>

\* a step of the supervisor task of child c; at "watch" the reply, and with it the
\* player list, has been consumed; at "done" the task has ended
SupervisorStep(c, pc, killed, events) ==
    /\ children' = IF pc = "done" THEN WithoutKey(children, c)
                   ELSE [children EXCEPT ![c].pc = pc, ![c].killed = killed, ![c].players = {}]
    /\ Post(events)
    /\ UNCHANGED <<sessions, has_called_handler, nextPid>>

\* connect_task ends with PlayerTokensGenerated (943-954)
BootReply(c) ==
    /\ Running
    /\ children[c].pc = "boot"
    /\ SupervisorStep(c, "watch", FALSE,
                      <<GameStartedCallback(children[c].lobby, c, children[c].players)>>)

\* connect_task ends with an error: process.kill() (955-959)
BootError(c) ==
    /\ Running
    /\ children[c].pc = "boot"
    /\ SupervisorStep(c, "watch", TRUE, <<>>)

\* wait_for_exit: the process exited (889); a killed process did not exit with success
ProcessExit(c) ==
    /\ Running
    /\ Live(c)
    /\ \E success \in BOOLEAN :
          /\ children[c].killed => ~success
          /\ SupervisorStep(c, "done", children[c].killed, OnExit(c, success))

\* wait_for_exit: the cancel receiver resolved: kill and reap (884-888)
CancelKill(c) ==
    /\ Running
    /\ Live(c)
    /\ Cancelled(c)
    /\ SupervisorStep(c, "done", TRUE, OnExit(c, FALSE))

\* --------------------------------------------- handle_event (199-284)
\* each arm of handle_event, for an event e taken from the channel, which keeps rest
ConnectionMadeArm(e, rest) ==
    /\ Turn([World EXCEPT !.players = WithKey(@, nextPid, [name |-> "", in_lobby |-> None])],
            e, Bare("None"), rest)
    /\ sessions' = WithKey(sessions, nextPid, "handshake")
    /\ nextPid' = nextPid + 1

PlayerNameUpdatedArm(e, rest) ==
    Turn(IF e.pid \in DOMAIN players
         THEN [World EXCEPT !.players[e.pid].name = e.name]
         ELSE World,
         e, Bare("None"), rest)

\* inputs: the payloads the clients send
MessageReceivedArm(e, rest, plain, ordered) ==
    \/ \E m \in plain :
          Turn(handle_message(World, e.pid, m, FirstOrders, TRUE), e, m, rest)
    \/ \E m \in ordered, ords \in SameOrders :
          Turn(handle_message(World, e.pid, m, ords, TRUE), e, m, rest)
    \/ \E spawned \in BOOLEAN :
          Turn(handle_message(World, e.pid, Bare("LockChampSelection"), FirstOrders, spawned),
               e, Bare("LockChampSelection"), rest)

ConnectionLostArm(e, rest) ==
    \E ords \in SameOrders :
        LET W == handle_player_left_lobby(World, e.pid, ords)
        IN Turn([W EXCEPT !.players = WithoutKey(@, e.pid)], e, Bare("None"), rest)

CallbackArm(e, rest) ==
    \/ /\ e.cb = "GameStarted"
       /\ \E list \in Orders(e.tokens) :
              Turn(SendTokens(World, e.child, list, 1), e, Bare("None"), rest)
    \/ /\ e.cb = "ExitedOk"
       /\ \E ords \in AllOrders : Turn(ExitedOk(World, e.lid, ords), e, Bare("None"), rest)
    \/ /\ e.cb = "ExitedFailed"
       /\ \E ords \in AllOrders : Turn(ExitedFailed(World, e.lid, ords), e, Bare("None"), rest)
    \/ /\ e.cb = "Cleanup"
       /\ Turn(Cleanup(World, e.lid), e, Bare("None"), rest)

\* a variant of ShutdownArm that broadcasts and leaves the exit flag as it is
ShutdownArmStaysUp(e, rest) ==
    Turn(broadcast_global_message(World, Plain("ServerShutdown")), e, Bare("None"), rest)

ShutdownArm(e, rest) ==
    Turn([broadcast_global_message(World, Plain("ServerShutdown")) EXCEPT !.should_exit = TRUE],
         e, Bare("None"), rest)

\* ------------------------------------- the loop of run(), event by event
\* The events of the supervisors and of the loop itself wait in queue in posting
\* order.  A session is a producer of its own: its next event may sit anywhere among
\* the events of the other producers, so it is taken at the turn that handles it.
Connect ==
    /\ Running
    /\ nextPid <= MaxPlayers
    /\ ConnectionMadeArm(Ev("ConnectionMade", 0, "", "", 0, 0), queue)

ClientHandshake(pid) ==
    /\ Running
    /\ sessions[pid] = "handshake"
    /\ \E name \in Names : PlayerNameUpdatedArm(Ev("PlayerNameUpdated", pid, name, "", 0, 0), queue)
    /\ sessions' = [sessions EXCEPT ![pid] = "ready"]
    /\ UNCHANGED nextPid

\* a request of pid is handled; at most lobby_cap lobbies and game_cap games are
\* started over a run, and the team lists of a lobby hold at most entry_cap entries
\* (no other event adds an entry)
ClientMessage(pid, plain, ordered, lobby_cap, game_cap, entry_cap) ==
    /\ Running
    /\ sessions[pid] = "ready"
    /\ MessageReceivedArm(Ev("MessageReceived", pid, "", "", 0, 0), queue,
                          plain, ordered)
    /\ nextLid' <= lobby_cap + 1
    /\ nextChild' <= game_cap + 1
    /\ \A lid \in DOMAIN lobbies' : PlayerCount(lobbies'[lid].players) <= entry_cap
    /\ UNCHANGED <<sessions, nextPid>>

ClientLost(pid) ==
    /\ Running
    /\ sessions[pid] \in {"handshake", "ready"}
    /\ ConnectionLostArm(ConnectionLost(pid), queue)
    /\ sessions' = [sessions EXCEPT ![pid] = "closed"]
    /\ UNCHANGED nextPid

HandleConnectionLost ==
    /\ Next_Event("ConnectionLost")
    /\ ConnectionLostArm(Head(queue), Tail(queue))
    /\ UNCHANGED <<sessions, nextPid>>

HandleCallback ==
    /\ Next_Event("Callback")
    /\ CallbackArm(Head(queue), Tail(queue))
    /\ UNCHANGED <<sessions, nextPid>>

\* handle_event returned: the loop of run() is back at its select! (172-175)
LoopBack ==
    /\ last.kind # "None"
    /\ last' = NoEvent
    /\ out' = <<>>
    /\ UNCHANGED <<players, lobbies, game_servers, used_game_server_ports, children, queue,
                   sessions, should_exit, panicked, has_called_handler, nextPid, nextLid,
                   nextChild>>

\* One lobby: every request with every input, and the supervisor of its game.
Next ==
    \/ LoopBack
    \/ Connect
    \/ \E pid \in DOMAIN sessions :
          \/ ClientHandshake(pid)
          \/ ClientMessage(pid, PlainPayloads, OrderedPayloads, MaxLobbies, MaxGames, MaxEntries)
          \/ ClientLost(pid)
    \/ \E c \in DOMAIN children :
          BootReply(c) \/ BootError(c) \/ ProcessExit(c) \/ CancelKill(c)
    \/ HandleConnectionLost
    \/ HandleCallback

Spec == Init /\ [][Next]_vars

\* Matches side by side, between players that stay connected: the requests that
\* form a lobby, select champions and leave, and the supervisors of the games.
GameNext ==
    \/ LoopBack
    \/ Connect
    \/ \E pid \in DOMAIN sessions :
          \/ ClientHandshake(pid)
          \/ ClientMessage(pid, MatchPlainPayloads, MatchOrderedPayloads,
                           MaxMatchLobbies, MaxMatchGames, MaxEntries)
    \/ \E c \in DOMAIN children :
          BootReply(c) \/ BootError(c) \/ ProcessExit(c) \/ CancelKill(c)
    \/ HandleCallback

GameSpec == Init /\ [][GameNext]_vars

\* The game of one lobby under fair scheduling: the requests of a match, connections
\* that drop, and the supervisors.  The loop of run() returns to its select! after
\* every event, and the runtime polls a supervisor whose cancel receiver has resolved.
KillNext ==
    \/ LoopBack
    \/ Connect
    \/ \E pid \in DOMAIN sessions :
          \/ ClientHandshake(pid)
          \/ ClientMessage(pid, MatchPlainPayloads, MatchOrderedPayloads,
                           MaxLobbies, MaxMatchGames, MaxEntries)
          \/ ClientLost(pid)
    \/ \E c \in DOMAIN children :
          BootReply(c) \/ BootError(c) \/ ProcessExit(c) \/ CancelKill(c)
    \/ HandleCallback

\* the ids of the children start_game may spawn
ChildIds == 1..MaxMatchGames

KillSpec ==
    /\ Init
    /\ [][KillNext]_vars
    /\ WF_vars(LoopBack)
    /\ \A c \in ChildIds : SF_vars(c \in DOMAIN children /\ CancelKill(c))

\* The places of one lobby: the requests that fill the team lists and move players
\* between their slots, with room for a third entry in the lists.
PlacesOrderedPayloads ==
    {m \in OrderedPayloads : m.type \in {"LeaveLobby", "SwitchTeam", "SwitchPlaces"}}
PlacesPlainPayloads == {m \in PlainPayloads : m.type \in {"CreateLobby", "JoinLobby"}}

PlacesNext ==
    \/ LoopBack
    \/ Connect
    \/ \E pid \in DOMAIN sessions :
          \/ ClientHandshake(pid)
          \/ ClientMessage(pid, PlacesPlainPayloads, PlacesOrderedPayloads,
                           MaxLobbies, MaxGames, MaxSlots)

PlacesSpec == Init /\ [][PlacesNext]_vars

\* The sessions with the channel spelled out: a session task posts what it read, in
\* the order it read it, the loop receives the oldest event of the channel, and the
\* channel holds at most MaxPosted events.  A session is at "handshake" until it has
\* posted the name, "ready" while it forwards requests, "closed" once it has posted
\* ConnectionLost, and "refused" when it posted ConnectionLost without a name.
SessionPayloads ==
    {m \in PlainPayloads \cup OrderedPayloads :
        m.type \in {"CreateLobby", "JoinLobby", "LeaveLobby", "Disconnecting", "GetLobbyList"}}

\* send.send(event) of the session task of pid, which goes on at pc
SessionPost(pid, event, pc) ==
    /\ Running
    /\ Len(queue) < MaxPosted
    /\ Post(<<event>>)
    /\ sessions' = [sessions EXCEPT ![pid] = pc]
    /\ UNCHANGED <<children, has_called_handler, nextPid>>

\* the first message is InitialHandshake{name} (222-228)
SendName(pid) ==
    /\ sessions[pid] = "handshake"
    /\ \E name \in Names :
          SessionPost(pid, Ev("PlayerNameUpdated", pid, name, "", 0, 0), "ready")

\* the reader loop forwards a message (242-249)
SendMessage(pid) ==
    /\ sessions[pid] = "ready"
    /\ \E m \in SessionPayloads :
          SessionPost(pid, Handled(Ev("MessageReceived", pid, "", "", 0, 0), m), "ready")

\* an error ends the session: a wrong first message or a failed stream (256-259), a
\* failed read of the reader loop (251-252)
SendLost(pid) ==
    /\ sessions[pid] \in {"handshake", "ready"}
    /\ SessionPost(pid, ConnectionLost(pid),
                   IF sessions[pid] = "handshake" THEN "refused" ELSE "closed")

\* a variant of Receive that yields the newest event of the channel
ReceiveNewest(q) == [event |-> q[Len(q)], rest |-> SubSeq(q, 1, Len(q) - 1)]

\* event_receiver.recv(): the oldest event of the channel, and the channel without it
Receive(q) == [event |-> Head(q), rest |-> Tail(q)]

\* the loop receives an event of a session and handles it
HandlePosted ==
    /\ Running
    /\ queue # <<>>
    /\ LET e == Receive(queue).event
           rest == Receive(queue).rest
       IN \/ e.kind = "PlayerNameUpdated" /\ PlayerNameUpdatedArm(e, rest)
          \/ /\ e.kind = "MessageReceived"
             /\ \E ords \in SameOrders :
                   Turn(handle_message(World, e.pid, e.msg, ords, TRUE), e, e.msg, rest)
          \/ e.kind = "ConnectionLost" /\ ConnectionLostArm(e, rest)
    /\ nextLid' <= MaxLobbies + 1
    /\ UNCHANGED <<sessions, nextPid>>

SessionNext ==
    \/ LoopBack
    \/ Connect
    \/ \E pid \in DOMAIN sessions : SendName(pid) \/ SendMessage(pid) \/ SendLost(pid)
    \/ HandlePosted

SessionSpec == Init /\ [][SessionNext]_vars

\* The shutdown of a server with one lobby, under fair scheduling.  The first Ctrl-C
\* posts Shutdown; a second one ends the process at once (exit(130)), after which
\* nothing of the server runs: it cuts a behaviour short and is no step here.
ShutdownEvent == Ev("Shutdown", 0, "", "", 0, 0)

\* the ctrl-c handler, first call (144-149)
CtrlC ==
    /\ Running
    /\ ~has_called_handler
    /\ has_called_handler' = TRUE
    /\ Post(<<ShutdownEvent>>)
    /\ UNCHANGED <<children, sessions, nextPid>>

HandleShutdown ==
    /\ Next_Event("Shutdown")
    /\ ShutdownArm(Head(queue), Tail(queue))
    /\ UNCHANGED <<sessions, nextPid>>

\* the requests that form and leave a lobby, the one that posts ConnectionLost and
\* the one whose handler unwinds
ShutdownOrderedPayloads == {m \in OrderedPayloads : m.type = "LeaveLobby"}
ShutdownPlainPayloads ==
    {m \in PlainPayloads :
        m.type \in {"CreateLobby", "JoinLobby", "Disconnecting", "StartGame"}}

ShutdownNext ==
    \/ LoopBack
    \/ Connect
    \/ \E pid \in DOMAIN sessions :
          \/ ClientHandshake(pid)
          \/ ClientMessage(pid, ShutdownPlainPayloads, ShutdownOrderedPayloads,
                           MaxLobbies, MaxGames, MaxEntries)
          \/ ClientLost(pid)
    \/ CtrlC
    \/ HandleConnectionLost
    \/ HandleShutdown

\* the loop returns to its select! after every event, and the channel hands over the
\* event at its front whenever the loop is at its select!
ShutdownSpec ==
    /\ Init
    /\ [][ShutdownNext]_vars
    /\ WF_vars(LoopBack)
    /\ SF_vars(HandleConnectionLost)
    /\ SF_vars(HandleShutdown)

\* Two lobbies side by side and the requests that form them, move them to champion
\* selection and take players out: LeaveLobby and KickPlayer with every known id.
KickOrderedPayloads == {m \in OrderedPayloads : m.type \in {"LeaveLobby", "KickPlayer"}}
KickPlainPayloads ==
    {m \in PlainPayloads : m.type \in {"CreateLobby", "JoinLobby", "EnterChampSelect"}}

KickNext ==
    \/ LoopBack
    \/ Connect
    \/ \E pid \in DOMAIN sessions :
          \/ ClientHandshake(pid)
          \/ ClientMessage(pid, KickPlainPayloads, KickOrderedPayloads,
                           MaxMatchLobbies, MaxGames, MaxEntries)

KickSpec == Init /\ [][KickNext]_vars

\* ------------------------------------------------------------ properties
\* the children whose process is spawned and not yet reaped
LiveChildren == {c \in DOMAIN children : Live(c)}
\* every player of the team lists has a locked selection
MembersLocked(lobby) ==
    \A p \in Members(lobby.players) :
        /\ p \in DOMAIN lobby.lobby_state.selected_champs
        /\ lobby.lobby_state.selected_champs[p].some
        /\ lobby.lobby_state.selected_champs[p].locked

\* C1: for every connected player p and every lobby L, p.in_lobby = L iff p occurs in
\* the team lists of L, and p occurs at most once over all teams of all lobbies.
C1_Membership ==
    \A p \in DOMAIN players :
        /\ \A lid \in DOMAIN lobbies :
              players[p].in_lobby = lid <=> p \in Members(lobbies[lid].players)
        /\ \A lid \in DOMAIN lobbies : Occurrences(lobbies[lid].players, p) <= 1
        /\ Cardinality({lid \in DOMAIN lobbies : p \in Members(lobbies[lid].players)}) <= 1

\* the team lists of lobby lid hold connected players of that lobby, each once
OwnPlayersOnly(lid) ==
    \A p \in Members(lobbies[lid].players) :
        /\ p \in DOMAIN players
        /\ players[p].in_lobby = lid
        /\ Occurrences(lobbies[lid].players, p) = 1

\* C2: every team of every lobby holds at most player_limit_per_team players; stated
\* for the lobbies with a limit of at least 1 whose team lists hold their own players.
C2_TeamLimit ==
    \A lid \in DOMAIN lobbies :
        OwnPlayersOnly(lid) /\ lobbies[lid].settings.player_limit_per_team >= 1 =>
            \A t \in DOMAIN lobbies[lid].players :
                Len(lobbies[lid].players[t]) <= lobbies[lid].settings.player_limit_per_team

\* C3: in a lobby in ChampSelect the keys of selected_champs are exactly the players
\* in the lobby's team lists; stated for the lobbies whose team lists hold their own
\* players.
C3_SelectionKeys ==
    \A lid \in DOMAIN lobbies :
        OwnPlayersOnly(lid) /\ lobbies[lid].lobby_state.tag = "ChampSelect" =>
            DOMAIN lobbies[lid].lobby_state.selected_champs = Members(lobbies[lid].players)

\* C4: no two live game-server children of different lobbies have the same port.
C4_PortsExclusive ==
    \A c, d \in LiveChildren :
        children[c].lobby # children[d].lobby => children[c].port # children[d].port

\* C5: a lobby has at most one live game-server child.
C5_OneChildPerLobby ==
    \A c, d \in LiveChildren : children[c].lobby = children[d].lobby => c = d

\* C6: no handler unwinds: the event loop never leaves handle_event by a panic.
C6_HandlersTotal == ~panicked

\* the reason start_game gives the lobby when the child cannot be spawned: the one
\* RequestRefused of handle_message that is the outcome of no guard
SpawnFailure == "Failed to start game server;\nplease restart your game client."

\* the step handled a request and refused it at a guard
RefusedAtGuard ==
    /\ last'.kind = "MessageReceived"
    /\ \E i \in DOMAIN out' :
          out'[i].msg.type = "RequestRefused" /\ out'[i].msg.text # SpawnFailure

\* C7: a request refused at a guard sends one RequestRefused, to the requester only,
\* and leaves the player map, the lobby map (teams, leader, settings and state of
\* every lobby) and the game-server map as they were.
C7_RefusalChangesNothing ==
    [][RefusedAtGuard =>
          /\ Len(out') = 1
          /\ out'[1].to = OnlyTo(last'.pid)
          /\ out'[1].msg.type = "RequestRefused"
          /\ players' = players
          /\ lobbies' = lobbies
          /\ game_servers' = game_servers
          /\ children' = children]_vars

\* C7, its case: the leader asked to switch a member with an id that is in no team of
\* the lobby, and was told "Player does not exist"
C7_Witness ==
    /\ last.kind = "MessageReceived"
    /\ last.msg.type = "SwitchPlaces"
    /\ last.pid \in DOMAIN players
    /\ players[last.pid].in_lobby \in DOMAIN lobbies
    /\ last.msg.id \in Members(lobbies[players[last.pid].in_lobby].players)
    /\ last.msg.id2 \notin Members(lobbies[players[last.pid].in_lobby].players)
    /\ out = <<[to |-> OnlyTo(last.pid), msg |-> RequestRefused("Player does not exist")]>>

\* the step handled a LockChampSelection of a member of lobby lid and accepted it
LockAccepted(lid) ==
    /\ last'.kind = "MessageReceived"
    /\ last'.msg.type = "LockChampSelection"
    /\ last'.pid \in DOMAIN players
    /\ players[last'.pid].in_lobby = lid
    /\ lid \in DOMAIN lobbies /\ lid \in DOMAIN lobbies'
    /\ \E i \in DOMAIN out' : out'[i].msg = With1("ChampSelectionLocked", last'.pid)

\* C8: an accepted LockChampSelection that leaves every player in the lobby's team
\* lists locked invokes start_game in the same event (start_game mints a child id);
\* stated for the lobbies whose team lists hold their own players.
C8_AllLockedStartsGame ==
    [][\A lid \in DOMAIN lobbies :
          LockAccepted(lid) /\ OwnPlayersOnly(lid) /\ MembersLocked(lobbies'[lid])
              => nextChild' = nextChild + 1]_vars

\* no supervisor runs and no Callback waits: nothing the supervisors or the event
\* loop have yet to do can change game_servers
Quiescent ==
    /\ DOMAIN children = {}
    /\ Pending(queue, "Callback") = 0

\* C9: once the supervisors and the event loop have nothing left to do, every handle
\* start_game stored is gone from game_servers and no port is marked used.
C9_HandlesCleanedUp ==
    Quiescent /\ ~panicked => game_servers = <<>> /\ used_game_server_ports = {}

\* the step handled the Callback on_exit posts for a failed exit of the child of lid
FailureHandled(lid) ==
    /\ last'.kind = "Callback"
    /\ last'.cb = "ExitedFailed"
    /\ last'.lid = lid

\* C10: the Callback of a failed exit, handled while the lobby has members, sends
\* every connected member RequestRefused("Failed to start game server"), clears the
\* in_lobby of every member and deletes the lobby and its game-server handle.
C10_FailureEmptiesLobby ==
    [][\A lid \in DOMAIN lobbies :
          FailureHandled(lid) /\ Members(lobbies[lid].players) # {} =>
              /\ \A p \in Members(lobbies[lid].players) \cap DOMAIN players :
                    /\ \E i \in DOMAIN out' :
                          /\ out'[i].msg = RequestRefused("Failed to start game server")
                          /\ out'[i].to[p] >= 1
                    /\ players'[p].in_lobby # lid
              /\ lid \notin DOMAIN lobbies'
              /\ lid \notin DOMAIN game_servers']_vars

\* C12: the leader of every lobby occurs in the lobby's team lists and is a connected
\* player whose in_lobby is that lobby.
C12_LeaderIsMember ==
    \A lid \in DOMAIN lobbies :
        /\ lobbies[lid].leader \in Members(lobbies[lid].players)
        /\ lobbies[lid].leader \in DOMAIN players
        /\ players[lobbies[lid].leader].in_lobby = lid

\* C13: every lobby of the lobby map has a member: a connected player whose in_lobby
\* is that lobby and who occurs in its team lists.
C13_LobbyHasMember ==
    \A lid \in DOMAIN lobbies :
        \E p \in Members(lobbies[lid].players) :
            p \in DOMAIN players /\ players[p].in_lobby = lid

\* the step handled an UpdateSettings and accepted it with settings that differ
SettingsAccepted ==
    /\ last.kind = "MessageReceived"
    /\ last.msg.type = "UpdateSettings"
    /\ \E i \in DOMAIN out : out[i].msg.type = "SettingsUpdated"

\* C14: the keys of every lobby's team map are exactly Team(0) .. Team(team_count - 1).
C14_TeamKeys ==
    \A lid \in DOMAIN lobbies :
        DOMAIN lobbies[lid].players = 0..(lobbies[lid].settings.team_count - 1)

\* C14, its case: a leader lowered team_count below the default and the lobby, still
\* with two players, has that many teams
C14_Witness ==
    /\ SettingsAccepted
    /\ \E lid \in DOMAIN lobbies :
          /\ lobbies[lid].leader = last.pid
          /\ lobbies[lid].settings.team_count < DefaultTeamCount
          /\ PlayerCount(lobbies[lid].players) >= 2

\* the step handled a SelectChampion or LockChampSelection of a player of lobby lid
ChampRequest(lid) ==
    /\ last'.kind = "MessageReceived"
    /\ last'.msg.type \in {"SelectChampion", "LockChampSelection"}
    /\ last'.pid \in DOMAIN players
    /\ players[last'.pid].in_lobby = lid

\* C15: after every step a lobby with a game-server handle is InGame, and a
\* SelectChampion or LockChampSelection for a lobby that has a handle is refused with
\* "Lobby is in invalid state.".
C15_HandleMeansInGame ==
    [][/\ \A lid \in DOMAIN game_servers' :
             lid \in DOMAIN lobbies' /\ lobbies'[lid].lobby_state.tag = "InGame"
       /\ \A lid \in DOMAIN game_servers :
             ChampRequest(lid) =>
                 out' = <<[to |-> OnlyTo(last'.pid),
                           msg |-> RequestRefused("Lobby is in invalid state.")]>>]_vars

\* the step handled the Callback posted on the PlayerTokensGenerated reply of a child
TokensHandled == last'.kind = "Callback" /\ last'.cb = "GameStarted"

\* the sends of a turn that carry a GameStarted to player p
GameStartedTo(sent, p) ==
    {i \in DOMAIN sent : sent[i].msg.type = "GameStarted" /\ sent[i].to[p] >= 1}

\* C16: handling the Callback of a PlayerTokensGenerated reply sends every connected
\* player listed in the reply exactly one GameStarted, to that player alone and with
\* that player's own token.
C16_TokensDelivered ==
    [][TokensHandled =>
          \A p \in last'.tokens \cap DOMAIN players :
              /\ Cardinality(GameStartedTo(out', p)) = 1
              /\ \A i \in GameStartedTo(out', p) :
                    /\ out'[i].to = OnlyTo(p)
                    /\ out'[i].msg = With2("GameStarted", last'.child, p)]_vars

\* the step handled a KickPlayer of a player whose in_lobby is the Normal lobby lid
KickHandled(lid) ==
    /\ last'.kind = "MessageReceived"
    /\ last'.msg.type = "KickPlayer"
    /\ last'.pid \in DOMAIN players
    /\ players[last'.pid].in_lobby = lid
    /\ lobbies[lid].lobby_state.tag = "Normal"

\* the recipients of a broadcast to the connected players among a set
EachOnce(set) == [p \in PlayerIds |-> IF p \in set /\ p \in DOMAIN players THEN 1 ELSE 0]

\* what a kick of target out of lobby lid by its leader does
Kicked(lid, target) ==
    LET remaining == Members(lobbies[lid].players) \ {target} IN
    /\ target \in DOMAIN players =>
          /\ out' # <<>>
          /\ out'[1] = [to |-> OnlyTo(target), msg |-> Plain("YouLeftLobby")]
          /\ players'[target].in_lobby = None
    /\ lid \in DOMAIN lobbies' => target \notin Members(lobbies'[lid].players)
    /\ remaining = {} => lid \notin DOMAIN lobbies'
    /\ EachOnce(remaining) # NoRecipient =>
          \E i \in DOMAIN out' :
              out'[i] = [to |-> EachOnce(remaining), msg |-> With1("PlayerLeftYourLobby", target)]
    /\ \A i \in DOMAIN out' :
          out'[i].msg.type = "PlayerLeftYourLobby" => out'[i].to = EachOnce(remaining)

\* C17: in a Normal lobby a KickPlayer of a member who is not the leader is refused
\* with "You are not the lobby leader." and changes nothing; a KickPlayer of the
\* leader for a target in the lobby's team lists sends the target YouLeftLobby, takes
\* it out of the team lists, clears its in_lobby and broadcasts PlayerLeftYourLobby to
\* exactly the remaining members.
C17_KickAuthority ==
    [][\A lid \in DOMAIN lobbies :
          KickHandled(lid) =>
              /\ lobbies[lid].leader # last'.pid =>
                    /\ out' = <<[to |-> OnlyTo(last'.pid),
                                 msg |-> RequestRefused("You are not the lobby leader.")]>>
                    /\ players' = players
                    /\ lobbies' = lobbies
                    /\ game_servers' = game_servers
              /\ (lobbies[lid].leader = last'.pid
                  /\ last'.msg.id \in Members(lobbies[lid].players)) =>
                    Kicked(lid, last'.msg.id)]_vars

\* the step handled a request of the given type
Requested(type) == last'.kind = "MessageReceived" /\ last'.msg.type = type

\* the player leads no lobby
LeadsNone(pid) == \A lid \in DOMAIN lobbies : lobbies[lid].leader # pid

\* the teams of lobby lid, in the lobby map ls, that hold player q
TeamsOf(ls, lid, q) == {t \in DOMAIN ls[lid].players : q \in Range(ls[lid].players[t])}

\* C18: an accepted SwitchTeam of another player comes from the leader, and so does
\* one accepted while team switching is disabled; no request of a player who leads no
\* lobby changes the team of another player, and with team switching disabled no
\* SwitchTeam or SwitchPlaces of a non-leader changes the team lists.
C18_SwitchAuthority ==
    [][/\ (Requested("SwitchTeam")
           /\ \E i \in DOMAIN out' : out'[i].msg.type = "PlayerSwitchedTeam") =>
              LET lobby == lobbies[players[last'.pid].in_lobby] IN
              /\ last'.msg.id # last'.pid => lobby.leader = last'.pid
              /\ ~lobby.settings.players_can_change_team => lobby.leader = last'.pid
       /\ (last'.kind = "MessageReceived" /\ LeadsNone(last'.pid)) =>
              \A lid \in DOMAIN lobbies :
                  \A q \in Members(lobbies[lid].players) \ {last'.pid} :
                      /\ lid \in DOMAIN lobbies'
                      /\ TeamsOf(lobbies', lid, q) = TeamsOf(lobbies, lid, q)
       /\ (Requested("SwitchTeam") \/ Requested("SwitchPlaces")) =>
              \A lid \in DOMAIN lobbies :
                  (/\ last'.pid \in DOMAIN players
                   /\ players[last'.pid].in_lobby = lid
                   /\ lobbies[lid].leader # last'.pid
                   /\ ~lobbies[lid].settings.players_can_change_team) =>
                      lobbies' = lobbies]_vars

\* C18, its case: a member who is not the leader moved itself to another team of a
\* lobby that holds the leader too
C18_Witness ==
    /\ last.kind = "MessageReceived"
    /\ last.msg.type = "SwitchTeam"
    /\ last.msg.id = last.pid
    /\ last.pid \in DOMAIN players
    /\ players[last.pid].in_lobby \in DOMAIN lobbies
    /\ LET lobby == lobbies[players[last.pid].in_lobby] IN
          /\ lobby.leader # last.pid
          /\ lobby.leader \in Members(lobby.players)
          /\ last.pid \in Range(lobby.players[last.msg.team])
    /\ \E i \in DOMAIN out : out[i].msg = With2("PlayerSwitchedTeam", last.pid, last.msg.team)

\* the step handled a request of the given type from a player of lobby lid, which is
\* in ChampSelect and lists the player in selected_champs
ChampStep(type, lid) ==
    /\ Requested(type)
    /\ last'.pid \in DOMAIN players
    /\ players[last'.pid].in_lobby = lid
    /\ lobbies[lid].lobby_state.tag = "ChampSelect"
    /\ last'.pid \in DOMAIN lobbies[lid].lobby_state.selected_champs

\* one refusal, sent to the requester, and no change of the lobbies
RefusedWith(reason) ==
    /\ out' = <<[to |-> OnlyTo(last'.pid), msg |-> RequestRefused(reason)]>>
    /\ lobbies' = lobbies

\* C19: in ChampSelect a SelectChampion of a champion that is not available is refused
\* with "That champion does not exist.", a SelectChampion of a player whose selection
\* is locked is refused with "You cannot change locked selection.", a
\* LockChampSelection without a selection is refused, and a locked selection keeps its
\* champion and its locked flag for as long as the lobby exists.
C19_LockedSelectionIsFinal ==
    [][\A lid \in DOMAIN lobbies :
          LET selected == lobbies[lid].lobby_state.selected_champs IN
          /\ (ChampStep("SelectChampion", lid) /\ last'.msg.champion \notin AvailableChamps)
                => RefusedWith("That champion does not exist.")
          /\ (/\ ChampStep("SelectChampion", lid)
              /\ last'.msg.champion \in AvailableChamps
              /\ selected[last'.pid].some
              /\ selected[last'.pid].locked)
                => RefusedWith("You cannot change locked selection.")
          /\ (ChampStep("LockChampSelection", lid) /\ ~selected[last'.pid].some)
                => RefusedWith("Cannot lock empty selection.")
          /\ (lobbies[lid].lobby_state.tag = "ChampSelect" /\ lid \in DOMAIN lobbies') =>
                /\ lobbies'[lid].lobby_state.tag = "ChampSelect"
                /\ \A p \in DOMAIN selected :
                      selected[p].some /\ selected[p].locked =>
                          /\ p \in DOMAIN lobbies'[lid].lobby_state.selected_champs
                          /\ lobbies'[lid].lobby_state.selected_champs[p] = selected[p]]_vars

\* C19, its case: a player with a locked selection asked for an available champion and
\* was told "You cannot change locked selection."
C19_Witness ==
    /\ last.kind = "MessageReceived"
    /\ last.msg.type = "SelectChampion"
    /\ last.msg.champion \in AvailableChamps
    /\ last.pid \in DOMAIN players
    /\ players[last.pid].in_lobby \in DOMAIN lobbies
    /\ LET state == lobbies[players[last.pid].in_lobby].lobby_state IN
          /\ state.tag = "ChampSelect"
          /\ last.pid \in DOMAIN state.selected_champs
          /\ state.selected_champs[last.pid].locked
    /\ out = <<[to |-> OnlyTo(last.pid),
                msg |-> RequestRefused("You cannot change locked selection.")]>>

\* lobby lid passes the guards of JoinLobby for a player that is in no lobby
JoinPasses(lid) ==
    /\ lobbies[lid].lobby_state.tag = "Normal"
    /\ lobbies[lid].settings.lobby_is_open
    /\ PlayerCount(lobbies[lid].players)
          < lobbies[lid].settings.team_count * lobbies[lid].settings.player_limit_per_team
    /\ HasSmallestTeam(lobbies[lid].players, lobbies[lid].settings.team_count)

\* the maps of ServerState are as they were before the two requests
Restored(W) ==
    /\ W.lobbies = lobbies
    /\ W.players = players
    /\ W.game_servers = game_servers

\* C20: for a player whose in_lobby is None, JoinLobby of a lobby that passes the
\* guards followed at once by LeaveLobby leaves the lobby map (the team lists with
\* their order, leader, settings and state), the player map and the game-server map as
\* they were; so does CreateLobby followed at once by LeaveLobby.
C20_JoinThenLeave ==
    \A p \in DOMAIN players :
        players[p].in_lobby = None =>
            \A ords \in SameOrders :
                /\ \A lid \in DOMAIN lobbies :
                      JoinPasses(lid) =>
                          Restored(LeaveLobby(JoinLobby(World, p, lid), p, ords))
                /\ Restored(LeaveLobby(CreateLobby(World, p), p, ords))

\* the step took player p, the only entry of the team lists of lobby lid, out of lid
LastMemberLeft(lid, p) ==
    /\ players[p].in_lobby = lid
    /\ Members(lobbies[lid].players) = {p}
    /\ Occurrences(lobbies[lid].players, p) = 1
    /\ p \notin DOMAIN players' \/ players'[p].in_lobby # lid

\* child c is spawned, not reaped, and its cancel receiver has resolved
CancelPending(c) == c \in DOMAIN children /\ Live(c) /\ Cancelled(c)

\* C11: the step in which the player-left-lobby routine removes the last member of a
\* lobby deletes the lobby and its game-server handle, which resolves the cancel
\* receiver of every live child of that lobby; and a live child whose cancel receiver
\* has resolved, during the bootstrap or after the reply, is eventually killed and
\* reaped.
C11_LastLeaveKillsChild ==
    /\ [][\A lid \in DOMAIN lobbies :
             \A p \in DOMAIN players :
                 LastMemberLeft(lid, p) =>
                     /\ lid \notin DOMAIN lobbies'
                     /\ lid \notin DOMAIN game_servers'
                     /\ \A c \in DOMAIN children' :
                           children'[c].lobby = lid /\ Live(c)' => Cancelled(c)']_vars
    /\ \A c \in ChildIds : CancelPending(c) ~> c \notin DOMAIN children

\* player p is a member of lobby lid: connected, with in_lobby = lid, and in its lists
IsMember(lid, p) ==
    /\ p \in DOMAIN players
    /\ players[p].in_lobby = lid
    /\ p \in Members(lobbies[lid].players)

\* the team lists after are the lists before with a in every slot of b and b in every
\* slot of a, and every other slot and every team size as before
Exchanged(before, after, a, b) ==
    /\ DOMAIN after = DOMAIN before
    /\ \A t \in DOMAIN before :
          /\ Len(after[t]) = Len(before[t])
          /\ \A i \in DOMAIN before[t] :
                after[t][i] = IF before[t][i] = a THEN b
                              ELSE IF before[t][i] = b THEN a
                              ELSE before[t][i]

\* C21: in a Normal lobby, a SwitchPlaces(a, b) of the leader for two members a and b
\* exchanges the slots of a and b and leaves every other slot, the team sizes, the
\* leader and the settings as they were; handled twice in a row it restores every
\* team list, also when a = b.
C21_SwitchPlacesInvolution ==
    \A lid \in DOMAIN lobbies :
        LET lobby == lobbies[lid] IN
        (lobby.lobby_state.tag = "Normal" /\ IsMember(lid, lobby.leader)) =>
            \A a, b \in PlayerIds :
                (IsMember(lid, a) /\ IsMember(lid, b)) =>
                    \A ords \in SameOrders :
                        LET once == SwitchPlaces(World, lobby.leader, a, b, ords)
                            twice == SwitchPlaces(once, lobby.leader, a, b, ords)
                        IN /\ Exchanged(lobby.players, once.lobbies[lid].players, a, b)
                           /\ once.lobbies[lid].leader = lobby.leader
                           /\ once.lobbies[lid].settings = lobby.settings
                           /\ twice.lobbies[lid].players = lobby.players

\* the step handled an UpdateSettings of the leader of the Normal lobby lid, the
\* requester's lobby, that carries the settings the lobby has
SameSettingsSent(lid) ==
    /\ Requested("UpdateSettings")
    /\ last'.pid \in DOMAIN players
    /\ players[last'.pid].in_lobby = lid
    /\ lobbies[lid].lobby_state.tag = "Normal"
    /\ lobbies[lid].leader = last'.pid
    /\ last'.msg.settings = lobbies[lid].settings

\* C22: an UpdateSettings of the leader of a Normal lobby (the requester's lobby) that
\* carries the lobby's current settings changes no team, no setting and nothing else
\* of the server's state, posts no event and sends no message at all.
C22_SameSettingsNoOp ==
    [][\A lid \in DOMAIN lobbies :
          SameSettingsSent(lid) =>
              /\ out' = <<>>
              /\ lobbies' = lobbies
              /\ players' = players
              /\ game_servers' = game_servers
              /\ children' = children
              /\ queue' = queue
              /\ used_game_server_ports' = used_game_server_ports
              /\ should_exit' = should_exit
              /\ panicked' = panicked]_vars

\* C22, its case: the leader of a Normal lobby with two members sent the settings the
\* lobby has, and nothing was sent
C22_Witness ==
    /\ last.kind = "MessageReceived"
    /\ last.msg.type = "UpdateSettings"
    /\ last.pid \in DOMAIN players
    /\ players[last.pid].in_lobby \in DOMAIN lobbies
    /\ LET lobby == lobbies[players[last.pid].in_lobby] IN
          /\ lobby.lobby_state.tag = "Normal"
          /\ lobby.leader = last.pid
          /\ lobby.settings = last.msg.settings
          /\ Cardinality(Members(lobby.players) \cap DOMAIN players) = 2
    /\ out = <<>>

\* the reason JoinLobby(lid) of player pid is refused with: that of the first guard,
\* in the order not_in_lobby, lobby_exists, normal_state, lobby_open, not_full, that
\* fails; "" when every guard passes
JoinRefusal(pid, lid) ==
    IF players[pid].in_lobby # None THEN "You are already in a lobby."
    ELSE IF lid \notin DOMAIN lobbies THEN "That lobby does not exist."
    ELSE IF lobbies[lid].lobby_state.tag # "Normal" THEN "Lobby is in invalid state."
    ELSE IF ~lobbies[lid].settings.lobby_is_open THEN "The lobby is closed."
    ELSE IF PlayerCount(lobbies[lid].players)
              >= lobbies[lid].settings.team_count * lobbies[lid].settings.player_limit_per_team
         THEN "The lobby is full"
    ELSE ""

\* C23: a JoinLobby(lid) is refused with the reason of the first failing guard, in the
\* order not_in_lobby, lobby_exists, normal_state, lobby_open, not_full, and changes
\* nothing; it is accepted (the requester's in_lobby becomes lid and the requester is
\* in its team lists) only when every guard passes.  No step adds a player to the
\* team lists of a lobby that is not Normal, nor sets a player's in_lobby to it.
C23_JoinGuards ==
    [][/\ (Requested("JoinLobby") /\ last'.pid \in DOMAIN players) =>
             LET pid == last'.pid
                 lid == last'.msg.lid
                 reason == JoinRefusal(pid, lid)
             IN IF reason # ""
                THEN /\ out' = <<[to |-> OnlyTo(pid), msg |-> RequestRefused(reason)]>>
                     /\ lobbies' = lobbies
                     /\ players' = players
                ELSE /\ players'[pid].in_lobby = lid
                     /\ pid \in Members(lobbies'[lid].players)
                     /\ \A i \in DOMAIN out' : out'[i].msg.type # "RequestRefused"
       /\ \A lid \in DOMAIN lobbies \cap DOMAIN lobbies' :
             (lobbies[lid].lobby_state.tag # "Normal"
              \/ lobbies'[lid].lobby_state.tag # "Normal") =>
                 /\ Members(lobbies'[lid].players) \subseteq Members(lobbies[lid].players)
                 /\ \A p \in DOMAIN players' :
                       players'[p].in_lobby = lid =>
                           p \in DOMAIN players /\ players[p].in_lobby = lid]_vars

\* C23, its case: a JoinLobby of a lobby that is in ChampSelect and closed was refused
\* with the reason of the earlier guard, that of the state
C23_Witness ==
    /\ last.kind = "MessageReceived"
    /\ last.msg.type = "JoinLobby"
    /\ last.pid \in DOMAIN players
    /\ players[last.pid].in_lobby = None
    /\ last.msg.lid \in DOMAIN lobbies
    /\ lobbies[last.msg.lid].lobby_state.tag = "ChampSelect"
    /\ ~lobbies[last.msg.lid].settings.lobby_is_open
    /\ out = <<[to |-> OnlyTo(last.pid), msg |-> RequestRefused("Lobby is in invalid state.")]>>

\* the step handled a JoinLobby(lid) whose guards all pass
JoinAccepted(lid) ==
    /\ Requested("JoinLobby")
    /\ last'.msg.lid = lid
    /\ last'.pid \in DOMAIN players
    /\ JoinRefusal(last'.pid, lid) = ""

\* team t has the fewest players of the teams 0 .. team_count - 1 of lobby lid, and
\* the lowest index among the teams of that size
FewestLowest(lid, t) ==
    LET teams == lobbies[lid].players
        all == 0..(lobbies[lid].settings.team_count - 1)
    IN /\ t \in all
       /\ \A u \in all : Len(teams[t]) <= Len(teams[u])
       /\ \A u \in all : u < t => Len(teams[u]) > Len(teams[t])

\* C24: an accepted JoinLobby appends the requester at the end of the team with the
\* fewest players, the one of lowest index among teams of equal smallest size, and
\* leaves the other teams, the leader, the settings and the state as they were; it
\* sets the requester's in_lobby, sends the requester YouJoinedLobby first, sends
\* PlayerJoinedYourLobby(requester) to every other member, and sends the requester
\* nothing else.
C24_JoinPlacement ==
    [][\A lid \in DOMAIN lobbies :
          JoinAccepted(lid) =>
              LET pid == last'.pid IN
              /\ \E t \in DOMAIN lobbies[lid].players :
                    /\ FewestLowest(lid, t)
                    /\ lobbies' = [lobbies EXCEPT ![lid].players[t] = Append(@, pid)]
              /\ players' = [players EXCEPT ![pid].in_lobby = lid]
              /\ out' # <<>>
              /\ out'[1] = [to |-> OnlyTo(pid), msg |-> With1("YouJoinedLobby", lid)]
              /\ \A i \in 2..Len(out') :
                    /\ out'[i].msg = With1("PlayerJoinedYourLobby", pid)
                    /\ out'[i].to[pid] = 0
              /\ \A p \in PlayerIds \ {pid} :
                    IsMember(lid, p) =>
                        \E i \in DOMAIN out' :
                            /\ out'[i].msg = With1("PlayerJoinedYourLobby", pid)
                            /\ out'[i].to[p] >= 1]_vars

\* C24, its case: the requester joined a lobby whose two teams were of equal size, not
\* empty, and sits at the end of team 0; the other member was told
C24_Witness ==
    /\ last.kind = "MessageReceived"
    /\ last.msg.type = "JoinLobby"
    /\ last.msg.lid \in DOMAIN lobbies
    /\ LET teams == lobbies[last.msg.lid].players IN
          /\ DOMAIN teams = {0, 1}
          /\ Len(teams[1]) >= 1
          /\ Len(teams[0]) = Len(teams[1]) + 1
          /\ teams[0][Len(teams[0])] = last.pid
    /\ \E i \in DOMAIN out, p \in PlayerIds \ {last.pid} :
          /\ out[i].msg = With1("PlayerJoinedYourLobby", last.pid)
          /\ out[i].to[p] = 1
          /\ IsMember(last.msg.lid, p)

\* ConnectionLost(pid) has been handled: the id was minted and is not in the player map
Gone(pid) == pid < nextPid /\ pid \notin DOMAIN players

\* the step handled ConnectionLost(pid)
LostHandled(pid) == last'.kind = "ConnectionLost" /\ last'.pid = pid

\* the step handled an event of pid's session
OwnEvent(pid) ==
    /\ last'.kind \in {"MessageReceived", "PlayerNameUpdated", "ConnectionLost"}
    /\ last'.pid = pid

\* C25: once ConnectionLost(pid) has been handled, pid is in no player map and in no
\* team list, after that step and after every later one; a later MessageReceived,
\* PlayerNameUpdated or ConnectionLost of pid changes no state, posts no event and
\* sends nothing.
C25_GoneStaysGone ==
    [][\A pid \in PlayerIds :
          /\ (Gone(pid) \/ LostHandled(pid)) =>
                /\ pid \notin DOMAIN players'
                /\ \A lid \in DOMAIN lobbies' : pid \notin Members(lobbies'[lid].players)
          /\ (Gone(pid) /\ OwnEvent(pid)) =>
                /\ players' = players
                /\ lobbies' = lobbies
                /\ game_servers' = game_servers
                /\ children' = children
                /\ Len(queue') <= Len(queue)
                /\ out' = <<>>]_vars

\* the positions of the channel that hold an event of the given kind of player pid
PostedAt(kind, pid) == {i \in DOMAIN queue : queue[i].kind = kind /\ queue[i].pid = pid}

\* the step took an event of a session from the channel and handled it
TookPosted ==
    /\ last.kind = "None"
    /\ last'.kind \in {"PlayerNameUpdated", "MessageReceived", "ConnectionLost"}

\* event e of the channel is the one the step handled
IsHandled(e) ==
    /\ last'.kind = e.kind
    /\ last'.pid = e.pid
    /\ last'.name = e.name
    /\ e.kind = "MessageReceived" => last'.msg = e.msg

\* sequence s is the front of sequence t
IsPrefix(s, t) == Len(s) <= Len(t) /\ SubSeq(t, 1, Len(s)) = s

\* what holds of the channel and of the event just handled, for the session of pid
SessionOrdered(pid) ==
    /\ \A i \in PostedAt("PlayerNameUpdated", pid), j \in PostedAt("MessageReceived", pid) :
          i < j
    /\ sessions[pid] \in {"handshake", "refused"} =>
          /\ PostedAt("MessageReceived", pid) = {}
          /\ ~(last.kind = "MessageReceived" /\ last.pid = pid)
    /\ sessions[pid] = "closed" =>
          \A j \in PostedAt("MessageReceived", pid) :
              \E i \in PostedAt("ConnectionLost", pid) : j < i
    /\ (last.kind = "MessageReceived" /\ last.pid = pid) =>
          /\ PostedAt("PlayerNameUpdated", pid) = {}
          /\ pid \in DOMAIN players => players[pid].name \in Names

\* C26: a session posts PlayerNameUpdated before any MessageReceived and ConnectionLost
\* after its last MessageReceived; the loop handles the oldest event of the channel and
\* what is posted joins the channel at its end, so the requests of a player are handled
\* in the order they were posted; no request of a player is handled before the name is
\* set; and a session that ended without a name never posts a request nor has one
\* handled.
C26_SessionOrder ==
    /\ [](\A pid \in DOMAIN sessions : SessionOrdered(pid))
    /\ [][/\ IF TookPosted
             THEN /\ queue # <<>>
                  /\ IsHandled(Head(queue))
                  /\ IsPrefix(Tail(queue), queue')
             ELSE IsPrefix(queue, queue')
          /\ \A pid \in DOMAIN sessions :
                /\ sessions[pid] = "refused" => sessions'[pid] = "refused"
                /\ sessions[pid] \in {"closed", "refused"} =>
                      Cardinality(PostedAt("MessageReceived", pid)') <=
                          Cardinality(PostedAt("MessageReceived", pid))]_vars

\* C26, its case: a request of a player was handled while a later, different request
\* of that player and then the ConnectionLost of its session wait in the channel
C26_Witness ==
    /\ last.kind = "MessageReceived"
    /\ sessions[last.pid] = "closed"
    /\ \E j \in PostedAt("MessageReceived", last.pid), i \in PostedAt("ConnectionLost", last.pid) :
          j < i /\ queue[j].msg # last.msg

\* one copy for every player of the player map
EveryPlayer == [p \in PlayerIds |-> IF p \in DOMAIN players THEN 1 ELSE 0]

\* the loop of run() has ended: by the exit flag, or by a handler that unwound first
LoopEnded == should_exit \/ panicked

\* C27: handling Shutdown sends ServerShutdown to every player that is in the player
\* map at that moment and to nobody else, changes no map and sets the exit flag; once
\* the flag is set no further event is handled and nothing changes; and once Shutdown
\* waits in the channel the loop of run() eventually ends.
C27_ShutdownExits ==
    /\ [][/\ (last.kind = "None" /\ last'.kind = "Shutdown") =>
                /\ should_exit'
                /\ out' = IF players = <<>> THEN <<>>
                          ELSE <<[to |-> EveryPlayer, msg |-> Plain("ServerShutdown")]>>
                /\ players' = players
                /\ lobbies' = lobbies
                /\ game_servers' = game_servers
          /\ should_exit =>
                /\ should_exit'
                /\ last' \in {last, NoEvent}
                /\ players' = players
                /\ lobbies' = lobbies
                /\ game_servers' = game_servers
                /\ queue' = queue]_vars
    /\ (Pending(queue, "Shutdown") > 0) ~> LoopEnded

\* C27, its case: Shutdown was handled with two players connected, both were sent
\* ServerShutdown, and an event that was posted after Shutdown stays in the channel
C27_Witness ==
    /\ last.kind = "Shutdown"
    /\ should_exit
    /\ Cardinality(DOMAIN players) = 2
    /\ out = <<[to |-> EveryPlayer, msg |-> Plain("ServerShutdown")]>>
    /\ queue # <<>>

\* the settings name at least one team and room for one player in each, carry a name
\* that is neither empty nor all whitespace, and name a map of MAPS
ValidSettings(st) ==
    /\ st.team_count >= 1
    /\ st.player_limit_per_team >= 1
    /\ ~IsEmpty(st.name)
    /\ ~AllWhitespace(st.name)
    /\ st.map \in MapNames

\* C28: the settings of every lobby are valid in every reachable state, and an
\* UpdateSettings of a connected player that carries settings that are not valid is
\* refused and leaves the settings of every lobby as they were.
C28_SettingsValid ==
    /\ [](\A lid \in DOMAIN lobbies : ValidSettings(lobbies[lid].settings))
    /\ [][(/\ Requested("UpdateSettings")
            /\ last'.pid \in DOMAIN players
            /\ ~ValidSettings(last'.msg.settings)) =>
              /\ \E i \in DOMAIN out' : out'[i].msg.type = "RequestRefused"
              /\ \A lid \in DOMAIN lobbies :
                    lid \in DOMAIN lobbies' /\ lobbies'[lid].settings = lobbies[lid].settings]_vars

\* the step handled a Disconnecting of the connected player pid
DisconnectingHandled(pid) ==
    /\ Requested("Disconnecting")
    /\ last'.pid = pid
    /\ pid \in DOMAIN players

\* the maps of ServerState are as they were
MapsUnchanged ==
    /\ players' = players
    /\ lobbies' = lobbies
    /\ game_servers' = game_servers
    /\ children' = children

\* C29: the event that handles a Disconnecting of pid changes no map, sends nothing
\* and puts ConnectionLost(pid) at the end of the channel; the events of the channel
\* are handled from its front; the ConnectionLost(pid) handled while pid is connected
\* takes pid out of its lobby and out of the player map; and a ConnectionLost(pid)
\* handled when pid is not in the player map changes nothing, posts nothing and sends
\* nothing.
C29_DisconnectIsDeferred ==
    [][\A pid \in PlayerIds :
          /\ DisconnectingHandled(pid) =>
                /\ MapsUnchanged
                /\ out' = <<>>
                /\ queue' = Append(queue, ConnectionLost(pid))
          /\ Len(queue') < Len(queue) =>
                /\ last'.kind = Head(queue).kind
                /\ last'.pid = Head(queue).pid
                /\ IsPrefix(Tail(queue), queue')
          /\ (LostHandled(pid) /\ pid \in DOMAIN players) =>
                /\ pid \notin DOMAIN players'
                /\ \A lid \in DOMAIN lobbies' :
                      players[pid].in_lobby = lid => pid \notin Members(lobbies'[lid].players)
          /\ (LostHandled(pid) /\ pid \notin DOMAIN players) =>
                /\ MapsUnchanged
                /\ out' = <<>>
                /\ Len(queue') <= Len(queue)]_vars

\* the step made the connected player pid leave lobby lid, by a LeaveLobby request or
\* by the loss of its connection, and the lobby is still there
LeftLobby(pid, lid) ==
    /\ \/ Requested("LeaveLobby") /\ last'.pid = pid
       \/ LostHandled(pid)
    /\ pid \in DOMAIN players
    /\ players[pid].in_lobby = lid
    /\ lid \in DOMAIN lobbies
    /\ lid \in DOMAIN lobbies'

\* the first element of the lowest-indexed team that is not empty
FirstInTeamOrder(teams) ==
    LET t == CHOOSE x \in DOMAIN teams :
                 /\ teams[x] # <<>>
                 /\ \A y \in DOMAIN teams : teams[y] # <<>> => x <= y
    IN teams[t][1]

\* the connected players that lobby lid lists after the step, pid aside
Remaining(pid, lid) ==
    {p \in Members(lobbies'[lid].players) \ {pid} : p \in DOMAIN players}

\* C30: when the leader pid leaves a lobby that still has members, the new leader is the
\* first element of the lowest-indexed team that is not empty, every remaining member
\* is sent LobbyLeaderChanged(new leader) and, after it, PlayerLeftYourLobby(pid), and
\* pid is sent neither; when a player that is not the leader leaves, the leader stays,
\* no LobbyLeaderChanged is sent, every remaining member is sent
\* PlayerLeftYourLobby(pid) and pid is not.
C30_LeaderSuccession ==
    [][\A pid \in PlayerIds : \A lid \in DOMAIN lobbies :
          LeftLobby(pid, lid) =>
              LET new == FirstInTeamOrder(lobbies'[lid].players)
                  changed == With1("LobbyLeaderChanged", new)
                  left == With1("PlayerLeftYourLobby", pid)
              IN
              /\ \A i \in DOMAIN out' :
                    out'[i].msg.type \in {"LobbyLeaderChanged", "PlayerLeftYourLobby"}
                        => out'[i].to[pid] = 0
              /\ lobbies[lid].leader = pid =>
                    /\ lobbies'[lid].leader = new
                    /\ \A p \in Remaining(pid, lid) :
                          \E i, j \in DOMAIN out' :
                              /\ i < j
                              /\ out'[i].msg = changed /\ out'[i].to[p] >= 1
                              /\ out'[j].msg = left /\ out'[j].to[p] >= 1
              /\ lobbies[lid].leader # pid =>
                    /\ lobbies'[lid].leader = lobbies[lid].leader
                    /\ \A i \in DOMAIN out' : out'[i].msg.type # "LobbyLeaderChanged"
                    /\ \A p \in Remaining(pid, lid) :
                          \E j \in DOMAIN out' :
                              out'[j].msg = left /\ out'[j].to[p] >= 1]_vars

\* the step handled an UpdateSettings of a player of lobby lid and accepted it with
\* settings that differ
SettingsAcceptedIn(lid) ==
    /\ Requested("UpdateSettings")
    /\ last'.pid \in DOMAIN players
    /\ players[last'.pid].in_lobby = lid
    /\ \E i \in DOMAIN out' : out'[i].msg.type = "SettingsUpdated"

\* the reshuffle with every loop over the teams taken in ascending team index
AscendingTeams == [i \in 1..MaxTeams |-> i - 1]
ReshuffleInTeamOrder(teams, old, new) == Reshuffle(teams, old, new, AscendingTeams)

\* C31: the teams after an accepted UpdateSettings are a function of the old teams and
\* the new settings: the members of the removed teams in ascending team index, then the
\* tail beyond the new limit of each remaining team in ascending team index, are
\* appended one by one to the team that is smallest at that moment, the lowest index
\* among equals.
C31_ReshuffleDeterministic ==
    [][\A lid \in DOMAIN lobbies :
          SettingsAcceptedIn(lid) =>
              /\ lid \in DOMAIN lobbies'
              /\ lobbies'[lid].players =
                     ReshuffleInTeamOrder(lobbies[lid].players, lobbies[lid].settings,
                                          last'.msg.settings)]_vars

\* the requests the specification guards by is_leader
LeaderOnly == {"KickPlayer", "UpdateSettings", "SwitchPlaces", "EnterChampSelect"}

\* the step handled a request of LeaderOnly from a member of lobby lid that is not its
\* leader, and the guards that come before the leader's passed: the lobby is Normal
\* and, for SwitchPlaces, team switching is allowed
NonLeaderRequest(lid) ==
    /\ last'.kind = "MessageReceived"
    /\ last'.msg.type \in LeaderOnly
    /\ last'.pid \in DOMAIN players
    /\ players[last'.pid].in_lobby = lid
    /\ lobbies[lid].lobby_state.tag = "Normal"
    /\ lobbies[lid].leader # last'.pid
    /\ last'.msg.type = "SwitchPlaces" => lobbies[lid].settings.players_can_change_team

\* C32: KickPlayer, UpdateSettings, SwitchPlaces and EnterChampSelect requested by a
\* member that is not the leader, the earlier guards passing, are refused with the one
\* message RequestRefused("You are not the lobby leader.") to the requester, and change
\* no lobby and no player.
C32_NotLeaderReason ==
    [][\A lid \in DOMAIN lobbies :
          NonLeaderRequest(lid) =>
              /\ out' = <<[to |-> OnlyTo(last'.pid),
                           msg |-> RequestRefused("You are not the lobby leader.")]>>
              /\ lobbies' = lobbies
              /\ players' = players]_vars

\* the place of a lifecycle state on the way Normal, ChampSelect, InGame
StateRank(tag) == CASE tag = "Normal" -> 0 [] tag = "ChampSelect" -> 1 [] OTHER -> 2

\* the requests the normal_lobby guard covers
NormalOnly ==
    {"SwitchTeam", "SwitchPlaces", "KickPlayer", "UpdateSettings", "EnterChampSelect"}

\* the step handled a request on lobby lid that reaches the guard on the lobby's
\* state: a JoinLobby(lid) of a connected player in no lobby, or a request of
\* NormalOnly of a connected player whose in_lobby is lid
ReachesStateGuard(lid) ==
    /\ last'.kind = "MessageReceived"
    /\ last'.pid \in DOMAIN players
    /\ \/ /\ last'.msg.type = "JoinLobby"
          /\ last'.msg.lid = lid
          /\ players[last'.pid].in_lobby = None
       \/ /\ last'.msg.type \in NormalOnly
          /\ players[last'.pid].in_lobby = lid

\* C33: the state of a lobby never moves back on the way Normal, ChampSelect, InGame;
\* a lobby leaves Normal only in the event that handles an EnterChampSelect of its
\* leader, which leaves it in ChampSelect with an empty selection for every member and
\* sends ChampSelectEntered to every connected member; and while a lobby is not Normal
\* a JoinLobby, SwitchTeam, SwitchPlaces, KickPlayer, UpdateSettings or
\* EnterChampSelect on it is refused with "Lobby is in invalid state." and changes no
\* lobby and no player.
C33_LifecycleForward ==
    [][\A lid \in DOMAIN lobbies :
          LET state == lobbies[lid].lobby_state IN
          /\ lid \in DOMAIN lobbies' =>
                StateRank(lobbies'[lid].lobby_state.tag) >= StateRank(state.tag)
          /\ (/\ lid \in DOMAIN lobbies'
               /\ state.tag = "Normal"
               /\ lobbies'[lid].lobby_state.tag # "Normal") =>
                /\ Requested("EnterChampSelect")
                /\ last'.pid = lobbies[lid].leader
                /\ last'.pid \in DOMAIN players
                /\ players[last'.pid].in_lobby = lid
                /\ lobbies'[lid].lobby_state =
                       ChampSelect([p \in Members(lobbies[lid].players) |-> NoSelection])
                /\ \A p \in Members(lobbies[lid].players) \cap DOMAIN players :
                      \E i \in DOMAIN out' :
                          /\ out'[i].msg = Plain("ChampSelectEntered")
                          /\ out'[i].to[p] >= 1
          /\ (state.tag # "Normal" /\ ReachesStateGuard(lid)) =>
                /\ out' = <<[to |-> OnlyTo(last'.pid),
                             msg |-> RequestRefused("Lobby is in invalid state.")]>>
                /\ lobbies' = lobbies
                /\ players' = players]_vars

\* C33, its case: the leader of a lobby in ChampSelect, with two members, asked to kick
\* the other and was refused for the lobby's state
C33_Witness ==
    /\ last.kind = "MessageReceived"
    /\ last.msg.type = "KickPlayer"
    /\ last.pid \in DOMAIN players
    /\ \E lid \in DOMAIN lobbies :
          /\ players[last.pid].in_lobby = lid
          /\ lobbies[lid].leader = last.pid
          /\ lobbies[lid].lobby_state.tag = "ChampSelect"
          /\ Cardinality(DOMAIN lobbies[lid].lobby_state.selected_champs) = 2
    /\ out = <<[to |-> OnlyTo(last.pid),
                msg |-> RequestRefused("Lobby is in invalid state.")]>>

\* the step handled a KickPlayer that passed its guards: the requester is the leader
\* of lobby lid, which is Normal, and the target is no member of lid
KickedOutsider(lid, target) ==
    /\ Requested("KickPlayer")
    /\ last'.msg.id = target
    /\ last'.pid \in DOMAIN players
    /\ players[last'.pid].in_lobby = lid
    /\ lobbies[lid].lobby_state.tag = "Normal"
    /\ lobbies[lid].leader = last'.pid
    /\ target \notin Members(lobbies[lid].players)
    /\ target \in DOMAIN players => players[target].in_lobby # lid

\* C34: a KickPlayer(target) of the leader of lobby lid, target being no member of lid,
\* leaves every lobby in the map with its teams and its leader, leaves the in_lobby of
\* every player as it was, and sends the target no YouLeftLobby.
C34_KickConfined ==
    [][\A lid \in DOMAIN lobbies : \A target \in PlayerIds :
          KickedOutsider(lid, target) =>
              /\ DOMAIN lobbies' = DOMAIN lobbies
              /\ \A l \in DOMAIN lobbies :
                    /\ lobbies'[l].players = lobbies[l].players
                    /\ lobbies'[l].leader = lobbies[l].leader
              /\ players' = players
              /\ \A i \in DOMAIN out' :
                    out'[i].msg.type = "YouLeftLobby" => out'[i].to[target] = 0]_vars

\* the step handled the Callback of a PlayerTokensGenerated reply that lists a player
\* who has left the player map since start_game, while another listed player is still
\* connected and in the lobby of the game
TokensAfterLoss ==
    /\ TokensHandled
    /\ \E p \in last'.tokens : p \notin DOMAIN players
    /\ \E q \in last'.tokens :
          /\ q \in DOMAIN players
          /\ players[q].in_lobby = last'.lid
          /\ last'.lid \in DOMAIN lobbies

\* C35: the Callback of a PlayerTokensGenerated reply that lists a player who has
\* disconnected since start_game ends without a panic, and every listed player that is
\* still connected is sent its GameStarted.
C35_TokensSurviveLoss ==
    [][TokensAfterLoss =>
          /\ ~panicked'
          /\ \A q \in last'.tokens \cap DOMAIN players :
                \E i \in DOMAIN out' :
                    /\ out'[i].to = OnlyTo(q)
                    /\ out'[i].msg = With2("GameStarted", last'.child, q)]_vars

\* C36: the Callback of a PlayerTokensGenerated reply for the game of lobby lid sends
\* GameStarted only to players that are members of lid at that moment: lid is in the
\* lobby map, the player is in its team lists and the player's in_lobby is lid.
C36_TokensToMembersOnly ==
    [][TokensHandled =>
          \A i \in DOMAIN out' : \A p \in PlayerIds :
              (out'[i].msg.type = "GameStarted" /\ out'[i].to[p] >= 1) =>
                  /\ last'.lid \in DOMAIN lobbies
                  /\ p \in Members(lobbies[last'.lid].players)
                  /\ p \in DOMAIN players
                  /\ players[p].in_lobby = last'.lid]_vars

\* C37: an accepted UpdateSettings keeps the players of the lobby: every id occurs in
\* the team lists after the reshuffle as often as before it, whichever way team_count
\* and player_limit_per_team change, and the leader is the same player and is in the
\* team lists.
C37_ReshuffleKeepsMembers ==
    [][\A lid \in DOMAIN lobbies :
          SettingsAcceptedIn(lid) =>
              /\ lid \in DOMAIN lobbies'
              /\ \A p \in PlayerIds :
                    Occurrences(lobbies'[lid].players, p)
                        = Occurrences(lobbies[lid].players, p)
              /\ lobbies'[lid].leader = lobbies[lid].leader
              /\ lobbies'[lid].leader \in Members(lobbies'[lid].players)]_vars

\* C37, its case: an UpdateSettings that asked for one team was accepted and the two
\* players of the lobby are both in team 0
C37_Witness ==
    /\ SettingsAccepted
    /\ last.msg.settings.team_count = 1
    /\ \E lid \in DOMAIN lobbies :
          /\ lobbies[lid].leader = last.pid
          /\ DOMAIN lobbies[lid].players = {0}
          /\ Len(lobbies[lid].players[0]) = 2
          /\ lobbies[lid].players[0][1] # lobbies[lid].players[0][2]

\* C38: in every reachable state every id in a team list of a lobby is a key of the
\* player map, so that start_game finds the PlayerInfo of every member.
C38_MembersAreConnected ==
    \A lid \in DOMAIN lobbies : Members(lobbies[lid].players) \subseteq DOMAIN players

\* C39: in every reachable state every lobby id that has a handle in game_servers is
\* a key of the lobby map.
C39_HandleHasLobby == DOMAIN game_servers \subseteq DOMAIN lobbies

\* C39, its case: the event just handled took the last member out of a lobby whose
\* game server is still running; the lobby and its handle are gone
C39_Witness ==
    /\ last.kind \in {"MessageReceived", "ConnectionLost"}
    /\ \E c \in DOMAIN children :
          /\ Live(c)
          /\ ~children[c].killed
          /\ children[c].lobby \notin DOMAIN lobbies
          /\ children[c].lobby \notin DOMAIN game_servers

\* C40: in every reachable state every connected player whose in_lobby is a lobby in
\* ChampSelect has a key in that lobby's selected_champs, and the event that handles a
\* SelectChampion or a LockChampSelection of such a player finds the player's
\* selection.
C40_SelectionForEveryMember ==
    /\ [](\A p \in DOMAIN players : \A lid \in DOMAIN lobbies :
              (players[p].in_lobby = lid /\ lobbies[lid].lobby_state.tag = "ChampSelect")
                  => p \in DOMAIN lobbies[lid].lobby_state.selected_champs)
    /\ [][\A lid \in DOMAIN lobbies :
              (ChampRequest(lid) /\ lobbies[lid].lobby_state.tag = "ChampSelect")
                  => last'.pid \in DOMAIN lobbies[lid].lobby_state.selected_champs]_vars

\* C40, its case: a member that is not the leader selected a champion in a lobby in
\* ChampSelect, and the two members of the lobby were told
C40_Witness ==
    /\ last.kind = "MessageReceived"
    /\ last.msg.type = "SelectChampion"
    /\ last.pid \in DOMAIN players
    /\ \E lid \in DOMAIN lobbies :
          /\ players[last.pid].in_lobby = lid
          /\ lobbies[lid].leader # last.pid
          /\ lobbies[lid].lobby_state.tag = "ChampSelect"
          /\ lobbies[lid].lobby_state.selected_champs[last.pid].some
          /\ \E i \in DOMAIN out :
                /\ out[i].msg.type = "PlayerSelectedChampion"
                /\ out[i].to = [p \in PlayerIds |-> 1]

====
